---- MODULE Spec2Model ----
(***************************************************************************)
(* Model of the miniature telemetry layer of the C++ visit-counter server  *)
(* (src/WebserverOpenTelemetry/WebServer.cpp): otel::Span, otel::Metric,   *)
(* otel::MetricsRegistry, VisitCounter and the four GET handlers of main.  *)
(*                                                                         *)
(* Strings are TLA+ strings; std::string operations (find, substr, <) are  *)
(* operators over them.  Worker threads of the HTTP server are the         *)
(* elements of Threads; every thread has a program counter pc[t].          *)
(***************************************************************************)
EXTENDS Integers, Sequences, FiniteSets, TLC

(***************************************************************************)
(* Bounds of the model.                                                    *)
(***************************************************************************)
NumThreads == 2
MaxRequests == 2
MaxAdds == 3
MaxCreates == 2
MaxAttrs == 1
MaxSpans == 2
MaxEnds == 2
Seed == 1
MaxAcidRequests == 2
PoolMax == 1

Threads == 1..NumThreads
NoThread == 0

(***************************************************************************)
(* std::string helpers.                                                    *)
(***************************************************************************)
\* Printable ASCII, codes 32..126, in code order (operator< of std::string
\* compares characters by code).  The double quote (34), the backslash (92) and
\* the backquote (96) are left out (a blank holds their place): no compared
\* string holds them.
Ascii == " ! #$%&'()*+,-./0123456789:;<=>?@ABCDEFGHIJKLMNOPQRSTUVWXYZ[ ]^_ abcdefghijklmnopqrstuvwxyz{|}~"

CharAt(s, i) == SubSeq(s, i, i)

\* std::string::find(ch, 0): the 1-based position of the first ch in s, 0 for npos.
RECURSIVE FindFrom(_, _, _)
FindFrom(s, ch, i) ==
    IF i > Len(s) THEN 0
    ELSE IF CharAt(s, i) = ch THEN i
    ELSE FindFrom(s, ch, i + 1)

Find(s, ch) == FindFrom(s, ch, 1)

CharCode(c) == CHOOSE code \in 32..126 : CharAt(Ascii, code - 31) = c

\* operator< of std::string: lexicographic by character code, a proper prefix first.
RECURSIVE StrLess(_, _)
StrLess(a, b) ==
    IF Len(b) = 0 THEN FALSE
    ELSE IF Len(a) = 0 THEN TRUE
    ELSE IF Head(a) = Head(b) THEN StrLess(Tail(a), Tail(b))
    ELSE CharCode(Head(a)) < CharCode(Head(b))

\* The keys of a std::map<std::string, ...> in iteration order.
Least(S) == CHOOSE x \in S : \A y \in S \ {x} : StrLess(x, y)

RECURSIVE SortedStrings(_)
SortedStrings(S) ==
    IF S = {} THEN << >>
    ELSE << Least(S) >> \o SortedStrings(S \ {Least(S)})

\* operator<< of an integer (and std::to_string): decimal digits, '-' when negative.
RECURSIVE NatToStr(_)
NatToStr(n) ==
    IF n < 10 THEN CharAt("0123456789", n + 1)
    ELSE NatToStr(n \div 10) \o CharAt("0123456789", (n % 10) + 1)

IntToStr(n) == IF n < 0 THEN "-" \o NatToStr(-n) ELSE NatToStr(n)

\* The string with every '/' replaced by '_' (the loop of incrementPath).
RECURSIVE SlashToUnderscore(_)
SlashToUnderscore(s) ==
    IF Len(s) = 0 THEN ""
    ELSE (IF Head(s) = "/" THEN "_" ELSE Head(s)) \o SlashToUnderscore(Tail(s))

(***************************************************************************)
(* otel::Metric: the pure part.  A label set (the unordered_map argument   *)
(* of Add) is a function from key strings to value strings; the values map *)
(* is a function from label-key strings to integers.                       *)
(***************************************************************************)
\* Add's label_key: the labels in ascending key order, each as key:value;
\* A key that keeps the pairs apart: every key and value is preceded by its
\* length.
RECURSIVE JoinLabels_LengthPrefixed(_, _)
JoinLabels_LengthPrefixed(keys, labels) ==
    IF keys = << >> THEN ""
    ELSE IntToStr(Len(Head(keys))) \o ":" \o Head(keys)
             \o IntToStr(Len(labels[Head(keys)])) \o ":" \o labels[Head(keys)]
             \o JoinLabels_LengthPrefixed(Tail(keys), labels)

\* The pairs concatenated without the ';' that ends each of them.
RECURSIVE JoinLabels_Unterminated(_, _)
JoinLabels_Unterminated(keys, labels) ==
    IF keys = << >> THEN ""
    ELSE Head(keys) \o ":" \o labels[Head(keys)]
             \o JoinLabels_Unterminated(Tail(keys), labels)

RECURSIVE JoinLabels(_, _)
JoinLabels(keys, labels) ==
    IF keys = << >> THEN ""
    ELSE Head(keys) \o ":" \o labels[Head(keys)] \o ";" \o JoinLabels(Tail(keys), labels)

LabelKey(labels) == JoinLabels(SortedStrings(DOMAIN labels), labels)

\* std::map::insert of one key into the keys held so far, kept in ascending order.
RECURSIVE InsertKey(_, _)
InsertKey(sorted, k) ==
    IF sorted = << >> THEN << k >>
    ELSE IF Head(sorted) = k THEN sorted
    ELSE IF StrLess(k, Head(sorted)) THEN << k >> \o sorted
    ELSE << Head(sorted) >> \o InsertKey(Tail(sorted), k)

\* The labels taken as the unordered_map hands them over, without sorting.
SortedLabels_AsIterated(order) == order

\* The keys of sorted_labels, the std::map built from labels.begin() to
\* labels.end(): order is the order in which the unordered_map is iterated.
RECURSIVE SortedLabels(_)
SortedLabels(order) ==
    IF order = << >> THEN << >>
    ELSE InsertKey(SortedLabels(SubSeq(order, 1, Len(order) - 1)), order[Len(order)])

\* Add's label_key for an argument iterated in the given order.
LabelKeyIn(order, labels) == JoinLabels(SortedLabels(order), labels)

\* The while loop of GetPrometheusFormat over one label key: every token up to
\* a ';' that holds a ':' is written as key="value", comma separated.
RECURSIVE LabelTokens(_, _)
LabelTokens(label_str, first) ==
    LET pos == Find(label_str, ";") IN
    IF pos = 0 THEN ""
    ELSE LET token     == SubSeq(label_str, 1, pos - 1)
             rest      == SubSeq(label_str, pos + 1, Len(label_str))
             colon_pos == Find(token, ":")
         IN  IF Len(token) > 0 /\ colon_pos # 0
             THEN (IF first THEN "" ELSE ",")
                      \o SubSeq(token, 1, colon_pos - 1) \o "=\""
                      \o SubSeq(token, colon_pos + 1, Len(token)) \o "\""
                      \o LabelTokens(rest, FALSE)
             ELSE LabelTokens(rest, first)

\* A value line written without the test for an empty label key.
ValueLine_AlwaysBraces(name, label_key, value) ==
    name \o "{" \o LabelTokens(label_key, TRUE) \o "}" \o " " \o IntToStr(value) \o "\n"

\* One value line of GetPrometheusFormat.
ValueLine(name, label_key, value) ==
    name \o (IF label_key # "" THEN "{" \o LabelTokens(label_key, TRUE) \o "}" ELSE "")
         \o " " \o IntToStr(value) \o "\n"

RECURSIVE ValueLines(_, _, _)
ValueLines(name, keys, values) ==
    IF keys = << >> THEN ""
    ELSE ValueLine(name, Head(keys), values[Head(keys)])
             \o ValueLines(name, Tail(keys), values)

\* The keys of ordered_values, the std::map copy of values.
OrderedKeys(values) == SortedStrings(DOMAIN values)

\* Metric::GetPrometheusFormat as a function of the Metric's fields.
PrometheusFormat(name, description, values) ==
    "# HELP " \o name \o " " \o description \o "\n"
        \o "# TYPE " \o name \o " counter\n"
        \o ValueLines(name, OrderedKeys(values), values)

(***************************************************************************)
(* State.                                                                  *)
(***************************************************************************)
VARIABLES
    heap,           \* the Metric objects ever made by make_unique<Metric>, by address
    metrics,        \* MetricsRegistry::metrics: metric name -> address in heap
    reg_mutex,      \* MetricsRegistry::mutex: the thread holding it, or NoThread
    total_counter,  \* VisitCounter::total_counter
    path_mutex,     \* VisitCounter::path_mutex: the thread holding it, or NoThread
    path_counters,  \* VisitCounter::path_counters: path -> visits
    path_metrics,   \* VisitCounter::path_metrics: path -> address in heap
    pc,             \* per thread: where it is
    req,            \* per thread: the path of the request it handles
    count,          \* per thread: the local count of a handler
    add_frame,      \* per thread: the arguments of the Add call it is in
    local,          \* per thread: the accumulator value Add has read
    cc_frame,       \* per thread: the arguments of the CreateCounter call it is in
    found,          \* per thread: the result of CreateCounter's find
    handle,         \* per thread: the Metric* CreateCounter returned
    scrape,         \* per thread: the iteration state of GetAllMetrics
    body,           \* per thread: the response or result it has built
    span,           \* per thread: the Span its scope owns
    sink,           \* std::cout: the span records written, in order
    rand_state,     \* the state of std::rand
    quota,          \* the calls the environment may still make (not program state)
    hist,           \* history: the calls made so far (not program state)
    visit_log,      \* std::cout: the visit lines the handlers have written, in order
    visitsCount,    \* server.js: let visitsCount
    visitsCounter,  \* server.js: the visits_total counter, attribute set -> sum
    res,            \* server.js: the request being served (req, res) and its response
    activeRequests, \* acid server.js: the sum added to active_requests_total
    pool,           \* acid server.js: pg Pool, client -> the request holding it, or 0
    counters_row,   \* acid server.js: the committed value of row 'total' of counters
    requests        \* acid server.js: the requests received, in order of arrival

vars == << heap, metrics, reg_mutex, total_counter, path_mutex, path_counters,
           path_metrics, pc, req, count, add_frame, local, cc_frame, found,
           handle, scrape, body, span, sink, rand_state, quota, hist,
           visit_log, visitsCount, visitsCounter, res, activeRequests, pool,
           counters_row, requests >>

\* The state of the PostgreSQL server (src/acid_implJS/server.js), but for its
\* visitsCounter.
acidVars == << activeRequests, pool, counters_row, requests >>

\* The state of the Node.js servers (src/WSOtelJS/server.js and the above).
nodeVars == << visitsCount, visitsCounter, res, acidVars >>

\* VisitCounter::visit_counter: the Metric the constructor registers.
TotalMetricName == "otel_visit_counter_total"
TotalMetricDescription == "Numero totale di visite al server (OTEL)"
visit_counter == 1

NoMetric == 0
NoLabels == [k \in {} |-> ""]
EmptyMap == [k \in {} |-> 0]

NewMetric(n, desc) ==
    [name |-> n, description |-> desc, values |-> EmptyMap, mutex |-> NoThread]

\* m[k] = v of a std::map or std::unordered_map: the entry is made or overwritten.
MapPut(m, k, v) == [j \in DOMAIN m \cup {k} |-> IF j = k THEN v ELSE m[j]]

\* m[k] read through operator[]: an absent entry is value-initialised.
MapGet(m, k) == IF k \in DOMAIN m THEN m[k] ELSE 0

NoAdd == [m |-> NoMetric, value |-> 0, labels |-> NoLabels, order |-> << >>, ret |-> ""]
NoCreate == [name |-> "", description |-> "", ret |-> ""]
NoScrape == [visited |-> {}, m |-> NoMetric]
NoBody == [kind |-> "", total |-> 0, paths |-> EmptyMap, text |-> ""]
NoSpan == [alive |-> FALSE, sid |-> 0, name |-> "", trace_id |-> "", span_id |-> "",
           attributes |-> << >>, ended |-> FALSE]

NoHist == [incrementTotal |-> 0, issued |-> << EmptyMap >>, returned |-> {},
           spans |-> 0, spanlog |-> << >>, counts |-> << >>, orders |-> {}, seen |-> {}, thrown |-> 0,
           home |-> 0]

\* No request has been received.
NoRes == [method |-> "", url |-> "", stage |-> "", status |-> 0, shown |-> 0]

NoQuota == [requests |-> 0, adds |-> 0, creates |-> 0, reads |-> 0, spans |-> 0,
            attrs |-> 0]

\* No thread has started anything and nothing has been counted.
Fresh ==
    /\ reg_mutex = NoThread
    /\ total_counter = 0
    /\ path_mutex = NoThread
    /\ path_counters = EmptyMap
    /\ path_metrics = EmptyMap
    /\ pc = [t \in Threads |-> "idle"]
    /\ req = [t \in Threads |-> ""]
    /\ count = [t \in Threads |-> 0]
    /\ add_frame = [t \in Threads |-> NoAdd]
    /\ local = [t \in Threads |-> 0]
    /\ cc_frame = [t \in Threads |-> NoCreate]
    /\ found = [t \in Threads |-> FALSE]
    /\ handle = [t \in Threads |-> NoMetric]
    /\ scrape = [t \in Threads |-> NoScrape]
    /\ body = [t \in Threads |-> NoBody]
    /\ span = [t \in Threads |-> NoSpan]
    /\ sink = << >>
    /\ rand_state = Seed
    /\ hist = NoHist
    /\ visit_log = << >>
    /\ visitsCount = 0
    /\ visitsCounter = EmptyMap
    /\ res = NoRes
    /\ activeRequests = 0
    /\ pool = [c \in 1..PoolMax |-> 0]
    /\ counters_row = 0
    /\ requests = << >>

\* The state once main has constructed VisitCounter: its constructor has
\* registered the total Metric.
Constructed ==
    /\ Fresh
    /\ heap = << NewMetric(TotalMetricName, TotalMetricDescription) >>
    /\ metrics = [n \in {TotalMetricName} |-> visit_counter]

Init ==
    /\ Constructed
    /\ quota = [NoQuota EXCEPT !.requests = MaxRequests]

visitVars == << total_counter, path_mutex, path_counters, path_metrics, req, count >>
spanVars == << span, sink, rand_state >>
createVars == << cc_frame, found, handle >>

(***************************************************************************)
(* otel::Metric::Add, called with add_frame[t] = [m, value, labels, ret].  *)
(***************************************************************************)
\* Add entered without taking the Metric's mutex.
Add_NoLock(t) ==
    /\ pc[t] = "Add_lock"
    /\ pc' = [pc EXCEPT ![t] = "Add_load"]
    /\ UNCHANGED << heap, metrics, reg_mutex, visitVars, add_frame, local,
                    createVars, scrape, body, spanVars, quota, hist, visit_log, nodeVars >>

\* std::lock_guard<std::mutex> lock(mutex)
Add_Lock(t) ==
    /\ pc[t] = "Add_lock"
    /\ heap[add_frame[t].m].mutex = NoThread
    /\ heap' = [heap EXCEPT ![add_frame[t].m].mutex = t]
    /\ pc' = [pc EXCEPT ![t] = "Add_load"]
    /\ UNCHANGED << metrics, reg_mutex, visitVars, add_frame, local,
                    createVars, scrape, body, spanVars, quota, hist, visit_log, nodeVars >>

\* label_key is built, and values[label_key] makes the entry (0 when absent)
\* and reads it
Add_Load(t) ==
    /\ pc[t] = "Add_load"
    /\ LET m         == add_frame[t].m
           label_key == LabelKeyIn(add_frame[t].order, add_frame[t].labels)
           old       == MapGet(heap[m].values, label_key)
       IN  /\ heap' = [heap EXCEPT ![m].values = MapPut(@, label_key, old)]
           /\ local' = [local EXCEPT ![t] = old]
    /\ pc' = [pc EXCEPT ![t] = "Add_store"]
    /\ UNCHANGED << metrics, reg_mutex, visitVars, add_frame, createVars,
                    scrape, body, spanVars, quota, hist, visit_log, nodeVars >>

\* Add with values as a static member: the store lands in every Metric.
Add_Store_Shared(t) ==
    /\ pc[t] = "Add_store"
    /\ LET m         == add_frame[t].m
           label_key == LabelKeyIn(add_frame[t].order, add_frame[t].labels)
       IN  heap' = [a \in DOMAIN heap |->
                      [heap[a] EXCEPT
                         !.values = MapPut(@, label_key, local[t] + add_frame[t].value),
                         !.mutex = IF a = m /\ @ = t THEN NoThread ELSE @]]
    /\ pc' = [pc EXCEPT ![t] = add_frame[t].ret]
    /\ add_frame' = [add_frame EXCEPT ![t] = NoAdd]
    /\ local' = [local EXCEPT ![t] = 0]
    /\ UNCHANGED << metrics, reg_mutex, visitVars, createVars, scrape, body,
                    spanVars, quota, hist, visit_log, nodeVars >>

\* ... += value writes it back; the lock_guard releases the mutex on return
Add_Store(t) ==
    /\ pc[t] = "Add_store"
    /\ LET m         == add_frame[t].m
           label_key == LabelKeyIn(add_frame[t].order, add_frame[t].labels)
       IN  heap' = [heap EXCEPT
                      ![m].values = MapPut(@, label_key, local[t] + add_frame[t].value),
                      ![m].mutex = IF @ = t THEN NoThread ELSE @]
    /\ pc' = [pc EXCEPT ![t] = add_frame[t].ret]
    /\ add_frame' = [add_frame EXCEPT ![t] = NoAdd]
    /\ local' = [local EXCEPT ![t] = 0]
    /\ UNCHANGED << metrics, reg_mutex, visitVars, createVars, scrape, body,
                    spanVars, quota, hist, visit_log, nodeVars >>

AddPcs == {"Add_lock", "Add_load", "Add_store"}

\* Work is handed to an idle thread.  Idle threads hold nothing and differ in
\* nothing, so the one taken is the least of them.
Takes(t) == pc[t] = "idle" /\ \A u \in Threads : pc[u] = "idle" => t <= u

\* Thread t is inside Add on the Metric at address m.
InAdd(t, m) == pc[t] \in AddPcs /\ add_frame[t].m = m

(***************************************************************************)
(* otel::MetricsRegistry::CreateCounter, called with                       *)
(* cc_frame[t] = [name, description, ret].                                 *)
(***************************************************************************)
\* CreateCounter entered without taking the registry's mutex.
CreateCounter_NoLock(t) ==
    /\ pc[t] = "CC_lock"
    /\ pc' = [pc EXCEPT ![t] = "CC_find"]
    /\ UNCHANGED << heap, metrics, reg_mutex, visitVars, add_frame, local,
                    createVars, scrape, body, spanVars, quota, hist, visit_log, nodeVars >>

\* std::lock_guard<std::mutex> lock(mutex)
CreateCounter_Lock(t) ==
    /\ pc[t] = "CC_lock"
    /\ reg_mutex = NoThread
    /\ reg_mutex' = t
    /\ pc' = [pc EXCEPT ![t] = "CC_find"]
    /\ UNCHANGED << heap, metrics, visitVars, add_frame, local, createVars,
                    scrape, body, spanVars, quota, hist, visit_log, nodeVars >>

\* metrics.find(name) == metrics.end()
CreateCounter_Find(t) ==
    /\ pc[t] = "CC_find"
    /\ found' = [found EXCEPT ![t] = cc_frame[t].name \in DOMAIN metrics]
    /\ pc' = [pc EXCEPT ![t] = "CC_insert"]
    /\ UNCHANGED << heap, metrics, reg_mutex, visitVars, add_frame, local,
                    cc_frame, handle, scrape, body, spanVars, quota, hist, visit_log, nodeVars >>

\* The assignment made whether or not the name was found: a new Metric takes the
\* place of the registered one.
CreateCounter_Insert_Always(t) ==
    /\ pc[t] = "CC_insert"
    /\ heap' = Append(heap, NewMetric(cc_frame[t].name, cc_frame[t].description))
    /\ metrics' = MapPut(metrics, cc_frame[t].name, Len(heap) + 1)
    /\ hist' = [hist EXCEPT !.issued = Append(@, EmptyMap)]
    /\ pc' = [pc EXCEPT ![t] = "CC_return"]
    /\ UNCHANGED << reg_mutex, visitVars, add_frame, local, createVars, scrape,
                    body, spanVars, quota, visit_log, nodeVars >>

\* metrics[name] = std::make_unique<Metric>(name, description), when not found
CreateCounter_Insert(t) ==
    /\ pc[t] = "CC_insert"
    /\ IF found[t]
       THEN UNCHANGED << heap, metrics, hist, visit_log, nodeVars >>
       ELSE /\ heap' = Append(heap, NewMetric(cc_frame[t].name, cc_frame[t].description))
            /\ metrics' = MapPut(metrics, cc_frame[t].name, Len(heap) + 1)
            /\ hist' = [hist EXCEPT !.issued = Append(@, EmptyMap)]
    /\ pc' = [pc EXCEPT ![t] = "CC_return"]
    /\ UNCHANGED << reg_mutex, visitVars, add_frame, local, createVars, scrape,
                    body, spanVars, quota, visit_log, nodeVars >>

\* CreateCounter returning with the registry's mutex still locked
CreateCounter_Return_Locked(t) ==
    /\ pc[t] = "CC_return"
    /\ handle' = [handle EXCEPT ![t] = metrics[cc_frame[t].name]]
    /\ hist' = [hist EXCEPT !.returned =
                    @ \cup {<< cc_frame[t].name, cc_frame[t].description,
                               metrics[cc_frame[t].name] >>}]
    /\ pc' = [pc EXCEPT ![t] = cc_frame[t].ret]
    /\ cc_frame' = [cc_frame EXCEPT ![t] = NoCreate]
    /\ found' = [found EXCEPT ![t] = FALSE]
    /\ UNCHANGED << heap, metrics, reg_mutex, visitVars, add_frame, local,
                    scrape, body, spanVars, quota, visit_log, nodeVars >>

\* return metrics[name].get(); the lock_guard releases the mutex
CreateCounter_Return(t) ==
    /\ pc[t] = "CC_return"
    /\ handle' = [handle EXCEPT ![t] = metrics[cc_frame[t].name]]
    /\ hist' = [hist EXCEPT !.returned =
                    @ \cup {<< cc_frame[t].name, cc_frame[t].description,
                               metrics[cc_frame[t].name] >>}]
    /\ reg_mutex' = IF reg_mutex = t THEN NoThread ELSE reg_mutex
    /\ pc' = [pc EXCEPT ![t] = cc_frame[t].ret]
    /\ cc_frame' = [cc_frame EXCEPT ![t] = NoCreate]
    /\ found' = [found EXCEPT ![t] = FALSE]
    /\ UNCHANGED << heap, metrics, visitVars, add_frame, local, scrape, body,
                    spanVars, quota, visit_log, nodeVars >>

CreatePcs == {"CC_lock", "CC_find", "CC_insert", "CC_return"}

(***************************************************************************)
(* MetricsRegistry::GetAllMetrics and the history of Add calls.            *)
(***************************************************************************)
\* The orders in which a range-for over the unordered_map metrics can visit
\* its entries: the standard fixes none, so every order of the names.
RECURSIVE Orders(_)
Orders(S) ==
    IF S = {} THEN { << >> }
    ELSE UNION { { << n >> \o rest : rest \in Orders(S \ {n}) } : n \in S }

MetricText(m) == PrometheusFormat(heap[m].name, heap[m].description, heap[m].values)

\* GetAllMetrics visiting the entries in the given order: each Metric's text
\* followed by a newline.
RECURSIVE GetAllMetrics(_)
GetAllMetrics(order) ==
    IF order = << >> THEN ""
    ELSE MetricText(metrics[Head(order)]) \o "\n" \o GetAllMetrics(Tail(order))

\* History: the call Add(value, labels) on the Metric at m is made.
Issue(h, m, labels, value) ==
    [h EXCEPT !.issued[m] =
        MapPut(@, labels,
               IF labels \in DOMAIN @
               THEN [sum |-> @[labels].sum + value, n |-> @[labels].n + 1]
               ELSE [sum |-> value, n |-> 1])]

(***************************************************************************)
(* The classes driven directly: any thread calls Add on any Metric with    *)
(* any label set, CreateCounter with any name, and serializes.             *)
(***************************************************************************)
LibNames == {"c", "p"}
LibDescriptions == {"d", "e"}
LibDeltas == {1, 5}
LibLabelSets ==
    { NoLabels,
      [k \in {"path"} |-> "/"],
      [k \in {"path"} |-> "/stats"],
      [k \in {"a"} |-> "b;c:d"],
      [k \in {"a", "c"} |-> IF k = "a" THEN "b" ELSE "d"] }

Lib_Add(t, m, value, labels) ==
    /\ Takes(t)
    /\ quota.adds > 0
    /\ \E order \in Orders(DOMAIN labels) :
           /\ add_frame' = [add_frame EXCEPT
                  ![t] = [m |-> m, value |-> value, labels |-> labels,
                          order |-> order, ret |-> "idle"]]
           /\ hist' = [Issue(hist, m, labels, value) EXCEPT
                           !.orders = @ \cup {<< m, labels, order >>}]
    /\ pc' = [pc EXCEPT ![t] = "Add_lock"]
    /\ body' = [body EXCEPT ![t] = NoBody]
    /\ quota' = [quota EXCEPT !.adds = @ - 1]
    /\ UNCHANGED << heap, metrics, reg_mutex, visitVars, local, createVars,
                    scrape, spanVars, visit_log, nodeVars >>

Lib_CreateCounter(t, name, description) ==
    /\ Takes(t)
    /\ quota.creates > 0
    /\ cc_frame' = [cc_frame EXCEPT
                      ![t] = [name |-> name, description |-> description, ret |-> "idle"]]
    /\ pc' = [pc EXCEPT ![t] = "CC_lock"]
    /\ body' = [body EXCEPT ![t] = NoBody]
    /\ quota' = [quota EXCEPT !.creates = @ - 1]
    /\ UNCHANGED << heap, metrics, reg_mutex, visitVars, add_frame, local,
                    found, handle, scrape, spanVars, hist, visit_log, nodeVars >>

\* No Add is in progress on the Metric at m.
Settled(m) == \A u \in Threads : ~InAdd(u, m)

\* No CreateCounter and no Add is in progress.
AllSettled == \A u \in Threads : pc[u] \notin AddPcs \cup CreatePcs

\* A caller serializes one Metric while no Add on it is in progress.
Lib_GetPrometheusFormat(t, m) ==
    /\ Takes(t)
    /\ Settled(m)
    /\ quota.reads > 0
    /\ body' = [body EXCEPT ![t] = [NoBody EXCEPT !.kind = "metric", !.text = MetricText(m)]]
    /\ quota' = [quota EXCEPT !.reads = @ - 1]
    /\ UNCHANGED << heap, metrics, reg_mutex, visitVars, pc, add_frame, local,
                    createVars, scrape, spanVars, hist, visit_log, nodeVars >>

\* A caller serializes the registry while nothing is in progress.
Lib_GetAllMetrics(t, order) ==
    /\ Takes(t)
    /\ AllSettled
    /\ quota.reads > 0
    /\ body' = [body EXCEPT ![t] = [NoBody EXCEPT !.kind = "registry",
                                                 !.text = GetAllMetrics(order)]]
    /\ quota' = [quota EXCEPT !.reads = @ - 1]
    /\ UNCHANGED << heap, metrics, reg_mutex, visitVars, pc, add_frame, local,
                    createVars, scrape, spanVars, hist, visit_log, nodeVars >>

(***************************************************************************)
(* One Metric driven directly: the state after CreateCounter(n, d) on an   *)
(* empty registry, then concurrent Add calls and a serialization.          *)
(***************************************************************************)
MetricInit ==
    /\ Fresh
    /\ \E n \in LibNames :
           /\ heap = << NewMetric(n, "d") >>
           /\ metrics = [k \in {n} |-> 1]
    /\ quota = [NoQuota EXCEPT !.adds = MaxAdds, !.reads = 1]

MetricNext ==
    \E t \in Threads :
        \/ \E m \in DOMAIN heap, value \in LibDeltas, labels \in LibLabelSets :
               Lib_Add(t, m, value, labels)
        \/ \E m \in DOMAIN heap : Lib_GetPrometheusFormat(t, m)
        \/ Add_Lock(t)
        \/ Add_Load(t)
        \/ Add_Store(t)

MetricSpec == MetricInit /\ [][MetricNext]_vars

(***************************************************************************)
(* The registry driven directly: the state after VisitCounter's            *)
(* constructor, then concurrent CreateCounter calls, an Add on a Metric    *)
(* and a serialization of the registry.                                    *)
(***************************************************************************)
RegistryInit ==
    /\ Constructed
    /\ quota = [NoQuota EXCEPT !.creates = MaxCreates, !.adds = 1, !.reads = 1]

RegistryNext ==
    \E t \in Threads :
        \/ \E name \in LibNames, description \in LibDescriptions :
               Lib_CreateCounter(t, name, description)
        \/ \E m \in DOMAIN heap : Lib_Add(t, m, 5, NoLabels)
        \/ \E order \in Orders(DOMAIN metrics) : Lib_GetAllMetrics(t, order)
        \/ Add_Lock(t)
        \/ Add_Load(t)
        \/ Add_Store(t)
        \/ CreateCounter_Lock(t)
        \/ CreateCounter_Find(t)
        \/ CreateCounter_Insert(t)
        \/ CreateCounter_Return(t)

RegistrySpec == RegistryInit /\ [][RegistryNext]_vars

(***************************************************************************)
(* otel::Span.  A span is a record; the operators give the fields after a  *)
(* call and what the call writes to std::cout.                             *)
(***************************************************************************)
\* std::rand as a linear congruential generator: the next state, which is also
\* the value returned (the generator itself is the C library's, not the
\* program's; the ids only need to be some function of the calls made).
RandNext(state) == (state * 75 + 74) % 65537

\* snprintf("%0<width>x", n): lower-case hexadecimal, zero padded.
RECURSIVE Hex(_, _)
Hex(n, width) ==
    IF width = 0 /\ n = 0 THEN ""
    ELSE Hex(n \div 16, IF width > 0 THEN width - 1 ELSE 0)
             \o CharAt("0123456789abcdef", (n % 16) + 1)

\* Span::Span(n) with its SpanContext: two calls of std::rand give the ids.
NewSpan(n, sid, state) ==
    [alive |-> TRUE, sid |-> sid, name |-> n,
     trace_id |-> Hex(RandNext(state), 32),
     span_id |-> Hex(RandNext(RandNext(state)), 16),
     attributes |-> << >>, ended |-> FALSE]

\* SetAttribute as a map would do it: the value of a key already set is
\* overwritten in place.
SetAttribute_ByKey(s, key, value) ==
    IF \E i \in 1..Len(s.attributes) : s.attributes[i][1] = key
    THEN [s EXCEPT !.attributes =
             [i \in 1..Len(@) |-> IF @[i][1] = key THEN << key, value >> ELSE @[i]]]
    ELSE [s EXCEPT !.attributes = Append(@, << key, value >>)]

\* Span::SetAttribute: push_back on attributes.
SetAttribute(s, key, value) == [s EXCEPT !.attributes = Append(@, << key, value >>)]

\* What End() writes: the two lines of a span, as one record.
SpanRecord(s, duration) ==
    [sid |-> s.sid, name |-> s.name, trace_id |-> s.trace_id, span_id |-> s.span_id,
     duration |-> duration, attributes |-> s.attributes]

\* End() without the test of ended.
SinkAfterEnd_NoGuard(s, out, duration) == Append(out, SpanRecord(s, duration))

\* std::cout after Span::End(): nothing is written when ended is set.
SinkAfterEnd(s, out, duration) ==
    IF s.ended THEN out ELSE Append(out, SpanRecord(s, duration))

\* The span after Span::End().
SpanAfterEnd(s) == [s EXCEPT !.ended = TRUE]

\* The destructor without its call of End().
SinkAfterDestructor_NoEnd(s, out, duration) == out

\* std::cout after Span::~Span(): End() is called when ended is not set.
SinkAfterDestructor(s, out, duration) ==
    IF ~s.ended THEN SinkAfterEnd(s, out, duration) ELSE out

\* The milliseconds a span or a request of the model lasts.
Durations == {0}

(***************************************************************************)
(* VisitCounter and the handlers of main.                                  *)
(***************************************************************************)
Paths == {"/", "/stats", "/metrics", "/traces"}
RemoteAddr == "127.0.0.1"

SpanName(path) ==
    CASE path = "/"        -> "handle_root_request"
      [] path = "/stats"   -> "handle_stats_request"
      [] path = "/metrics" -> "handle_metrics_request"
      [] path = "/traces"  -> "handle_traces_request"

\* incrementPath's metric_name.
MetricName(path) ==
    IF path = "/" THEN "otel_path_root_visits"
    ELSE SlashToUnderscore("otel_path_" \o SubSeq(path, 2, Len(path)) \o "_visits")

PathDescription(path) == "Visite al percorso " \o path \o " (OTEL)"

PathLabels(path) == [k \in {"path"} |-> path]

\* A handler that calls span->End() as soon as the span has its first attributes
Handle_Begin_EndsAtEntry(t, path) ==
    /\ Takes(t)
    /\ quota.requests > 0
    /\ quota' = [quota EXCEPT !.requests = @ - 1]
    /\ req' = [req EXCEPT ![t] = path]
    /\ count' = [count EXCEPT ![t] = 0]
    /\ body' = [body EXCEPT ![t] = NoBody]
    /\ LET s == SetAttribute(SetAttribute(SetAttribute(
                    NewSpan(SpanName(path), hist.spans + 1, rand_state),
                    "http.method", "GET"), "http.path", path),
                    "http.remote_ip", RemoteAddr)
       IN  /\ span' = [span EXCEPT ![t] = SpanAfterEnd(s)]
           /\ sink' = SinkAfterEnd(s, sink, 0)
    /\ rand_state' = RandNext(RandNext(rand_state))
    /\ hist' = [hist EXCEPT !.spans = @ + 1]
    /\ pc' = [pc EXCEPT ![t] = "incrementTotal"]
    /\ UNCHANGED << heap, metrics, reg_mutex, total_counter, path_mutex,
                    path_counters, path_metrics, add_frame, local, createVars,
                    scrape, visit_log, nodeVars >>

\* A handler that goes to incrementPath without calling incrementTotal first.
Handle_Begin_PathFirst(t, path) ==
    /\ Takes(t)
    /\ quota.requests > 0
    /\ quota' = [quota EXCEPT !.requests = @ - 1]
    /\ req' = [req EXCEPT ![t] = path]
    /\ count' = [count EXCEPT ![t] = 0]
    /\ body' = [body EXCEPT ![t] = NoBody]
    /\ span' = [span EXCEPT ![t] =
           SetAttribute(SetAttribute(SetAttribute(
               NewSpan(SpanName(path), hist.spans + 1, rand_state),
               "http.method", "GET"), "http.path", path), "http.remote_ip", RemoteAddr)]
    /\ rand_state' = RandNext(RandNext(rand_state))
    /\ hist' = [hist EXCEPT !.spans = @ + 1]
    /\ pc' = [pc EXCEPT ![t] = "incrementPath"]
    /\ UNCHANGED << heap, metrics, reg_mutex, total_counter, path_mutex,
                    path_counters, path_metrics, add_frame, local, createVars,
                    scrape, sink, visit_log, nodeVars >>

\* The /metrics handler serializes without counting its own request.
Handle_Begin_ScrapeUncounted(t, path) ==
    /\ Takes(t)
    /\ quota.requests > 0
    /\ quota' = [quota EXCEPT !.requests = @ - 1]
    /\ req' = [req EXCEPT ![t] = path]
    /\ count' = [count EXCEPT ![t] = 0]
    /\ body' = [body EXCEPT ![t] = NoBody]
    /\ span' = [span EXCEPT ![t] =
           SetAttribute(SetAttribute(SetAttribute(
               NewSpan(SpanName(path), hist.spans + 1, rand_state),
               "http.method", "GET"), "http.path", path), "http.remote_ip", RemoteAddr)]
    /\ rand_state' = RandNext(RandNext(rand_state))
    /\ hist' = [hist EXCEPT !.spans = @ + 1]
    /\ pc' = [pc EXCEPT ![t] = IF path = "/metrics" THEN "respond" ELSE "incrementTotal"]
    /\ UNCHANGED << heap, metrics, reg_mutex, total_counter, path_mutex,
                    path_counters, path_metrics, add_frame, local, createVars,
                    scrape, sink, visit_log, nodeVars >>

\* A handler is entered: the span is made and gets its first three attributes.
Handle_Begin(t, path) ==
    /\ Takes(t)
    /\ quota.requests > 0
    /\ quota' = [quota EXCEPT !.requests = @ - 1]
    /\ req' = [req EXCEPT ![t] = path]
    /\ count' = [count EXCEPT ![t] = 0]
    /\ body' = [body EXCEPT ![t] = NoBody]
    /\ span' = [span EXCEPT ![t] =
           SetAttribute(SetAttribute(SetAttribute(
               NewSpan(SpanName(path), hist.spans + 1, rand_state),
               "http.method", "GET"), "http.path", path), "http.remote_ip", RemoteAddr)]
    /\ rand_state' = RandNext(RandNext(rand_state))
    /\ hist' = [hist EXCEPT !.spans = @ + 1]
    /\ pc' = [pc EXCEPT ![t] = "incrementTotal"]
    /\ UNCHANGED << heap, metrics, reg_mutex, total_counter, path_mutex,
                    path_counters, path_metrics, add_frame, local, createVars,
                    scrape, sink, visit_log, nodeVars >>

\* incrementTotal with ++total_counter as a plain read followed by a plain write.
IncrementTotal_Racy(t) ==
    /\ pc[t] = "incrementTotal"
    /\ IF count[t] = 0
       THEN /\ count' = [count EXCEPT ![t] = total_counter + 1]
            /\ UNCHANGED << total_counter, add_frame, pc, hist, visit_log, nodeVars >>
       ELSE /\ total_counter' = count[t]
            /\ add_frame' = [add_frame EXCEPT ![t] =
                   [m |-> visit_counter, value |-> 1, labels |-> NoLabels,
                    order |-> << >>, ret |-> "incrementPath"]]
            /\ hist' = [Issue(hist, visit_counter, NoLabels, 1) EXCEPT
                            !.incrementTotal = @ + 1,
                            !.counts = Append(@, count[t])]
            /\ pc' = [pc EXCEPT ![t] = "Add_lock"]
            /\ UNCHANGED count
    /\ UNCHANGED << heap, metrics, reg_mutex, path_mutex, path_counters,
                    path_metrics, req, local, createVars, scrape, body,
                    spanVars, quota, visit_log, nodeVars >>

\* incrementTotal with a post-increment: count is the total before the call.
IncrementTotal_PostIncrement(t) ==
    /\ pc[t] = "incrementTotal"
    /\ total_counter' = total_counter + 1
    /\ count' = [count EXCEPT ![t] = total_counter]
    /\ add_frame' = [add_frame EXCEPT ![t] =
           [m |-> visit_counter, value |-> 1, labels |-> NoLabels,
            order |-> << >>, ret |-> "incrementPath"]]
    /\ hist' = [Issue(hist, visit_counter, NoLabels, 1) EXCEPT
                    !.incrementTotal = @ + 1,
                    !.counts = Append(@, total_counter)]
    /\ pc' = [pc EXCEPT ![t] = "Add_lock"]
    /\ UNCHANGED << heap, metrics, reg_mutex, path_mutex, path_counters,
                    path_metrics, req, local, createVars, scrape, body,
                    spanVars, quota, visit_log, nodeVars >>

\* incrementTotal without the call of visit_counter->Add(1).
IncrementTotal_NoMirror(t) ==
    /\ pc[t] = "incrementTotal"
    /\ total_counter' = total_counter + 1
    /\ count' = [count EXCEPT ![t] = total_counter + 1]
    /\ hist' = [hist EXCEPT !.incrementTotal = @ + 1,
                            !.counts = Append(@, total_counter + 1)]
    /\ pc' = [pc EXCEPT ![t] = "incrementPath"]
    /\ UNCHANGED << heap, metrics, reg_mutex, path_mutex, path_counters,
                    path_metrics, req, add_frame, local, createVars, scrape,
                    body, spanVars, quota, visit_log, nodeVars >>

\* incrementTotal: int count = ++total_counter, then visit_counter->Add(1)
IncrementTotal(t) ==
    /\ pc[t] = "incrementTotal"
    /\ total_counter' = total_counter + 1
    /\ count' = [count EXCEPT ![t] = total_counter + 1]
    /\ add_frame' = [add_frame EXCEPT ![t] =
           [m |-> visit_counter, value |-> 1, labels |-> NoLabels,
            order |-> << >>, ret |-> "incrementPath"]]
    /\ hist' = [Issue(hist, visit_counter, NoLabels, 1) EXCEPT
                    !.incrementTotal = @ + 1,
                    !.counts = Append(@, total_counter + 1)]
    /\ pc' = [pc EXCEPT ![t] = "Add_lock"]
    /\ UNCHANGED << heap, metrics, reg_mutex, path_mutex, path_counters,
                    path_metrics, req, local, createVars, scrape, body,
                    spanVars, quota, visit_log, nodeVars >>

\* incrementPath: std::lock_guard<std::mutex> lock(path_mutex)
IncrementPath_Lock(t) ==
    /\ pc[t] = "incrementPath"
    /\ path_mutex = NoThread
    /\ path_mutex' = t
    /\ pc' = [pc EXCEPT ![t] = "IP_count"]
    /\ UNCHANGED << heap, metrics, reg_mutex, total_counter, path_counters,
                    path_metrics, req, count, add_frame, local, createVars,
                    scrape, body, spanVars, quota, hist, visit_log, nodeVars >>

\* incrementPath counting a path only once it has an entry: the first visit makes
\* the entry and leaves it 0.
IncrementPath_Count_FirstLost(t) ==
    /\ pc[t] = "IP_count"
    /\ path_counters' = MapPut(path_counters, req[t],
                               IF req[t] \in DOMAIN path_counters
                               THEN path_counters[req[t]] + 1 ELSE 0)
    /\ IF Len(req[t]) < 1
       THEN /\ path_mutex' = IF path_mutex = t THEN NoThread ELSE path_mutex
            /\ pc' = [pc EXCEPT ![t] = "threw"]
            /\ UNCHANGED cc_frame
       ELSE IF req[t] \notin DOMAIN path_metrics
       THEN /\ cc_frame' = [cc_frame EXCEPT ![t] =
                   [name |-> MetricName(req[t]),
                    description |-> PathDescription(req[t]), ret |-> "IP_add"]]
            /\ pc' = [pc EXCEPT ![t] = "CC_lock"]
            /\ UNCHANGED path_mutex
       ELSE /\ pc' = [pc EXCEPT ![t] = "IP_add"]
            /\ UNCHANGED << cc_frame, path_mutex >>
    /\ UNCHANGED << heap, metrics, reg_mutex, total_counter,
                    path_metrics, req, count, add_frame, local, found, handle,
                    scrape, body, spanVars, quota, hist, visit_log, nodeVars >>

\* path_counters[path]++, metric_name, and the find in path_metrics: CreateCounter
\* is called when the path has no cached Metric.  path.substr(1) throws
\* std::out_of_range when path is empty: the lock_guard releases path_mutex and
\* the exception leaves incrementPath
IncrementPath_Count(t) ==
    /\ pc[t] = "IP_count"
    /\ path_counters' = MapPut(path_counters, req[t], MapGet(path_counters, req[t]) + 1)
    /\ IF Len(req[t]) < 1
       THEN /\ path_mutex' = IF path_mutex = t THEN NoThread ELSE path_mutex
            /\ pc' = [pc EXCEPT ![t] = "threw"]
            /\ UNCHANGED cc_frame
       ELSE IF req[t] \notin DOMAIN path_metrics
       THEN /\ cc_frame' = [cc_frame EXCEPT ![t] =
                   [name |-> MetricName(req[t]),
                    description |-> PathDescription(req[t]), ret |-> "IP_add"]]
            /\ pc' = [pc EXCEPT ![t] = "CC_lock"]
            /\ UNCHANGED path_mutex
       ELSE /\ pc' = [pc EXCEPT ![t] = "IP_add"]
            /\ UNCHANGED << cc_frame, path_mutex >>
    /\ UNCHANGED << heap, metrics, reg_mutex, total_counter,
                    path_metrics, req, count, add_frame, local, found, handle,
                    scrape, body, spanVars, quota, hist, visit_log, nodeVars >>

\* incrementPath with the critical section ending before the Add: path_mutex is
\* released once path_counters is updated and the Metric is found.
IncrementPath_Add_Unlocked(t) ==
    /\ pc[t] = "IP_add"
    /\ LET cache == IF req[t] \in DOMAIN path_metrics THEN path_metrics
                    ELSE MapPut(path_metrics, req[t], handle[t])
       IN  /\ path_metrics' = cache
           /\ add_frame' = [add_frame EXCEPT ![t] =
                  [m |-> cache[req[t]], value |-> 1, labels |-> PathLabels(req[t]),
                   order |-> << "path" >>, ret |-> "IP_unlock"]]
           /\ hist' = Issue(hist, cache[req[t]], PathLabels(req[t]), 1)
    /\ path_mutex' = NoThread
    /\ pc' = [pc EXCEPT ![t] = "Add_lock"]
    /\ UNCHANGED << heap, metrics, reg_mutex, total_counter,
                    path_counters, req, count, local, createVars, scrape, body,
                    spanVars, quota, visit_log, nodeVars >>

\* path_metrics[path] = the Metric CreateCounter returned (when it was called),
\* then path_metrics[path]->Add(1, {{"path", path}})
IncrementPath_Add(t) ==
    /\ pc[t] = "IP_add"
    /\ LET cache == IF req[t] \in DOMAIN path_metrics THEN path_metrics
                    ELSE MapPut(path_metrics, req[t], handle[t])
       IN  /\ path_metrics' = cache
           /\ add_frame' = [add_frame EXCEPT ![t] =
                  [m |-> cache[req[t]], value |-> 1, labels |-> PathLabels(req[t]),
                   order |-> << "path" >>, ret |-> "IP_unlock"]]
           /\ hist' = Issue(hist, cache[req[t]], PathLabels(req[t]), 1)
    /\ pc' = [pc EXCEPT ![t] = "Add_lock"]
    /\ UNCHANGED << heap, metrics, reg_mutex, total_counter, path_mutex,
                    path_counters, req, count, local, createVars, scrape, body,
                    spanVars, quota, visit_log, nodeVars >>

\* incrementPath returning with path_mutex still locked
IncrementPath_Unlock_Kept(t) ==
    /\ pc[t] = "IP_unlock"
    /\ pc' = [pc EXCEPT ![t] = "visited"]
    /\ UNCHANGED << heap, metrics, reg_mutex, total_counter, path_mutex,
                    path_counters, path_metrics, req, count, add_frame, local,
                    createVars, scrape, body, spanVars, quota, hist, visit_log, nodeVars >>

\* incrementPath returns: the lock_guard releases path_mutex
IncrementPath_Unlock(t) ==
    /\ pc[t] = "IP_unlock"
    /\ path_mutex' = IF path_mutex = t THEN NoThread ELSE path_mutex
    /\ pc' = [pc EXCEPT ![t] = "visited"]
    /\ UNCHANGED << heap, metrics, reg_mutex, total_counter, path_counters,
                    path_metrics, req, count, add_frame, local, createVars,
                    scrape, body, spanVars, quota, hist, visit_log, nodeVars >>

\* The handler writes its visit line to std::cout: /, /stats and /metrics do,
\* / and /stats with the count incrementTotal returned; /traces writes none.
Handle_Log(t) ==
    /\ pc[t] = "visited"
    /\ visit_log' =
           IF req[t] = "/traces" THEN visit_log
           ELSE Append(visit_log,
                       [path |-> req[t], remote_addr |-> RemoteAddr,
                        count |-> IF req[t] = "/metrics" THEN 0 ELSE count[t]])
    /\ pc' = [pc EXCEPT ![t] = "respond"]
    /\ UNCHANGED << heap, metrics, reg_mutex, visitVars, add_frame, local,
                    createVars, scrape, body, spanVars, quota, hist, nodeVars >>

\* The handlers of / and /traces build their page; / shows count.
Respond_Page(t) ==
    /\ pc[t] = "respond"
    /\ req[t] \in {"/", "/traces"}
    /\ body' = [body EXCEPT ![t] =
           [NoBody EXCEPT !.kind = "html",
                          !.total = IF req[t] = "/" THEN count[t] ELSE 0]]
    /\ pc' = [pc EXCEPT ![t] = "finish"]
    /\ UNCHANGED << heap, metrics, reg_mutex, visitVars, add_frame, local,
                    createVars, scrape, spanVars, quota, hist, visit_log, nodeVars >>

\* getPathCounters copying path_counters without taking path_mutex.
Stats_GetPathCounters_NoLock(t) ==
    /\ pc[t] = "respond"
    /\ req[t] = "/stats"
    /\ body' = [body EXCEPT ![t] = [NoBody EXCEPT !.kind = "stats", !.paths = path_counters]]
    /\ pc' = [pc EXCEPT ![t] = "stats_total"]
    /\ UNCHANGED << heap, metrics, reg_mutex, visitVars, add_frame, local,
                    createVars, scrape, spanVars, quota, hist, visit_log, nodeVars >>

\* getPathCounters: the copy of path_counters made with path_mutex held
Stats_GetPathCounters(t) ==
    /\ pc[t] = "respond"
    /\ req[t] = "/stats"
    /\ path_mutex = NoThread
    /\ body' = [body EXCEPT ![t] = [NoBody EXCEPT !.kind = "stats", !.paths = path_counters]]
    /\ pc' = [pc EXCEPT ![t] = "stats_total"]
    /\ UNCHANGED << heap, metrics, reg_mutex, visitVars, add_frame, local,
                    createVars, scrape, spanVars, quota, hist, visit_log, nodeVars >>

\* getTotal: total_counter.load(), written into the page after the copy
Stats_GetTotal(t) ==
    /\ pc[t] = "stats_total"
    /\ body' = [body EXCEPT ![t].total = total_counter]
    /\ pc' = [pc EXCEPT ![t] = "finish"]
    /\ UNCHANGED << heap, metrics, reg_mutex, visitVars, add_frame, local,
                    createVars, scrape, spanVars, quota, hist, visit_log, nodeVars >>

\* getPrometheusMetrics entered without taking path_mutex
Metrics_Lock_Skipped(t) ==
    /\ pc[t] = "respond"
    /\ req[t] = "/metrics"
    /\ pc' = [pc EXCEPT ![t] = "GPM_native"]
    /\ UNCHANGED << heap, metrics, reg_mutex, total_counter, path_mutex,
                    path_counters, path_metrics, req, count, add_frame, local,
                    createVars, scrape, body, spanVars, quota, hist, visit_log, nodeVars >>

\* getPrometheusMetrics: std::lock_guard<std::mutex> lock(path_mutex)
Metrics_Lock(t) ==
    /\ pc[t] = "respond"
    /\ req[t] = "/metrics"
    /\ path_mutex = NoThread
    /\ path_mutex' = t
    /\ pc' = [pc EXCEPT ![t] = "GPM_native"]
    /\ UNCHANGED << heap, metrics, reg_mutex, total_counter, path_counters,
                    path_metrics, req, count, add_frame, local, createVars,
                    scrape, body, spanVars, quota, hist, visit_log, nodeVars >>

RECURSIVE PathLines(_, _)
PathLines(paths, counters) ==
    IF paths = << >> THEN ""
    ELSE "path_visits_total{path=\"" \o Head(paths) \o "\"} "
             \o IntToStr(counters[Head(paths)]) \o "\n"
             \o PathLines(Tail(paths), counters)

\* The text getPrometheusMetrics writes itself, up to the call of GetAllMetrics.
NativeText(total, counters) ==
    "# HELP visit_counter_total Numero totale di visite al server\n"
        \o "# TYPE visit_counter_total counter\n"
        \o "visit_counter_total " \o IntToStr(total) \o "\n\n"
        \o "# HELP path_visits_total Numero di visite per percorso\n"
        \o "# TYPE path_visits_total counter\n"
        \o PathLines(SortedStrings(DOMAIN counters), counters)
        \o "\n"

\* total_counter and path_counters are read and written out
Metrics_Native(t) ==
    /\ pc[t] = "GPM_native"
    /\ body' = [body EXCEPT ![t] =
           [kind |-> "metrics", total |-> total_counter, paths |-> path_counters,
            text |-> NativeText(total_counter, path_counters)]]
    /\ scrape' = [scrape EXCEPT ![t] = NoScrape]
    /\ pc' = [pc EXCEPT ![t] = "GAM"]
    /\ UNCHANGED << heap, metrics, reg_mutex, visitVars, add_frame, local,
                    createVars, spanVars, quota, hist, visit_log, nodeVars >>

\* GetAllMetrics: the range-for reaches its next entry, in the order of the
\* unordered_map; the registry's mutex is not taken
GetAllMetrics_Next(t) ==
    /\ pc[t] = "GAM"
    /\ \E n \in DOMAIN metrics \ scrape[t].visited :
           scrape' = [scrape EXCEPT ![t] =
                         [visited |-> scrape[t].visited \cup {n}, m |-> metrics[n]]]
    /\ pc' = [pc EXCEPT ![t] = "GPF"]
    /\ UNCHANGED << heap, metrics, reg_mutex, visitVars, add_frame, local,
                    createVars, body, spanVars, quota, hist, visit_log, nodeVars >>

\* The values maps a reader of the Metric at m can see while it takes no mutex:
\* the map as it is, or, for an Add in progress on m, as that Add leaves it.
RacyViews(m) ==
    { heap[m].values }
        \cup { MapPut(heap[m].values, LabelKey(add_frame[u].labels),
                      (IF pc[u] = "Add_store" THEN local[u]
                       ELSE MapGet(heap[m].values, LabelKey(add_frame[u].labels)))
                          + add_frame[u].value) :
               u \in {v \in Threads : InAdd(v, m) /\ pc[v] # "Add_lock"} }

\* GetPrometheusFormat of the entry reached: values is read with no mutex held
GetPrometheusFormat_Read(t) ==
    /\ pc[t] = "GPF"
    /\ \E view \in RacyViews(scrape[t].m) :
           body' = [body EXCEPT ![t].text =
                       @ \o PrometheusFormat(heap[scrape[t].m].name,
                                             heap[scrape[t].m].description, view)
                         \o "\n"]
    /\ scrape' = [scrape EXCEPT ![t].m = NoMetric]
    /\ pc' = [pc EXCEPT ![t] = "GAM"]
    /\ UNCHANGED << heap, metrics, reg_mutex, visitVars, add_frame, local,
                    createVars, spanVars, quota, hist, visit_log, nodeVars >>

\* getPrometheusMetrics as an exporter of deltas would write it: the total is
\* set back to zero once it has been exported
Metrics_Unlock_Reset(t) ==
    /\ pc[t] = "GAM"
    /\ DOMAIN metrics \subseteq scrape[t].visited
    /\ path_mutex' = IF path_mutex = t THEN NoThread ELSE path_mutex
    /\ scrape' = [scrape EXCEPT ![t] = NoScrape]
    /\ pc' = [pc EXCEPT ![t] = "finish"]
    /\ total_counter' = 0
    /\ UNCHANGED << heap, metrics, reg_mutex, path_counters,
                    path_metrics, req, count, add_frame, local, createVars,
                    body, spanVars, quota, hist, visit_log, nodeVars >>

\* getPrometheusMetrics returning with path_mutex still locked
Metrics_Unlock_Kept(t) ==
    /\ pc[t] = "GAM"
    /\ DOMAIN metrics \subseteq scrape[t].visited
    /\ scrape' = [scrape EXCEPT ![t] = NoScrape]
    /\ pc' = [pc EXCEPT ![t] = "finish"]
    /\ UNCHANGED << heap, metrics, reg_mutex, total_counter, path_mutex,
                    path_counters, path_metrics, req, count, add_frame, local,
                    createVars, body, spanVars, quota, hist, visit_log, nodeVars >>

\* getPrometheusMetrics returns: the lock_guard releases path_mutex
Metrics_Unlock(t) ==
    /\ pc[t] = "GAM"
    /\ DOMAIN metrics \subseteq scrape[t].visited
    /\ path_mutex' = IF path_mutex = t THEN NoThread ELSE path_mutex
    /\ scrape' = [scrape EXCEPT ![t] = NoScrape]
    /\ pc' = [pc EXCEPT ![t] = "finish"]
    /\ UNCHANGED << heap, metrics, reg_mutex, total_counter, path_counters,
                    path_metrics, req, count, add_frame, local, createVars,
                    body, spanVars, quota, hist, visit_log, nodeVars >>

\* The handler sets the attributes of the response (/traces only the status)
\* and returns: the unique_ptr destroys the span, the response leaves the thread
Handle_End(t, duration) ==
    /\ pc[t] = "finish"
    /\ LET s == IF req[t] = "/traces"
                THEN SetAttribute(span[t], "http.status_code", "200")
                ELSE SetAttribute(SetAttribute(span[t], "http.response_time_ms",
                                               IntToStr(duration)),
                                  "http.status_code", "200")
       IN  sink' = SinkAfterDestructor(s, sink, duration)
    /\ span' = [span EXCEPT ![t] = NoSpan]
    /\ req' = [req EXCEPT ![t] = ""]
    /\ count' = [count EXCEPT ![t] = 0]
    /\ body' = [body EXCEPT ![t] = NoBody]
    /\ handle' = [handle EXCEPT ![t] = NoMetric]
    /\ pc' = [pc EXCEPT ![t] = "idle"]
    /\ UNCHANGED << heap, metrics, reg_mutex, total_counter, path_mutex,
                    path_counters, path_metrics, add_frame, local,
                    cc_frame, found, scrape, rand_state, quota, hist, visit_log, nodeVars >>

\* The steps a thread takes once it has a request.
Serve(t) ==
    \/ IncrementTotal(t)
    \/ Add_Lock(t)
    \/ Add_Load(t)
    \/ Add_Store(t)
    \/ IncrementPath_Lock(t)
    \/ IncrementPath_Count(t)
    \/ CreateCounter_Lock(t)
    \/ CreateCounter_Find(t)
    \/ CreateCounter_Insert(t)
    \/ CreateCounter_Return(t)
    \/ IncrementPath_Add(t)
    \/ IncrementPath_Unlock(t)
    \/ Handle_Log(t)
    \/ Respond_Page(t)
    \/ Stats_GetPathCounters(t)
    \/ Stats_GetTotal(t)
    \/ Metrics_Lock(t)
    \/ Metrics_Native(t)
    \/ GetAllMetrics_Next(t)
    \/ GetPrometheusFormat_Read(t)
    \/ Metrics_Unlock(t)
    \/ \E duration \in Durations : Handle_End(t, duration)

Next ==
    \E t \in Threads :
        \/ \E path \in Paths : Handle_Begin(t, path)
        \/ Serve(t)

Spec == Init /\ [][Next]_vars

\* Every request that has been accepted is served to its end: a thread that can
\* take a step is scheduled.  Requests need not arrive.
FairSpec == Spec /\ \A t \in Threads : WF_vars(Serve(t))

(***************************************************************************)
(* otel::Span driven directly: a scope makes a span, calls SetAttribute    *)
(* and End any number of times in any order, and is left by a return, an   *)
(* early return or an exception; the unique_ptr then destroys the span.    *)
(***************************************************************************)
SpanNames == {"work"}
AttrKeys == {"k"}
AttrValues == {"v"}
ExitKinds == {"return", "early return", "exception"}

NoSpanLog == [name |-> "", ends |-> 0, exit |-> "", before |-> << >>]

Span_Start(t, name) ==
    /\ Takes(t)
    /\ quota.spans > 0
    /\ quota' = [quota EXCEPT !.spans = @ - 1]
    /\ span' = [span EXCEPT ![t] = NewSpan(name, hist.spans + 1, rand_state)]
    /\ rand_state' = RandNext(RandNext(rand_state))
    /\ hist' = [hist EXCEPT !.spans = @ + 1,
                            !.spanlog = Append(@, [NoSpanLog EXCEPT !.name = name])]
    /\ pc' = [pc EXCEPT ![t] = "scope"]
    /\ UNCHANGED << heap, metrics, reg_mutex, visitVars, add_frame, local,
                    createVars, scrape, body, sink, visit_log, nodeVars >>

Span_SetAttribute(t, key, value) ==
    /\ pc[t] = "scope"
    /\ Len(span[t].attributes) < quota.attrs
    /\ span' = [span EXCEPT ![t] = SetAttribute(@, key, value)]
    /\ hist' = IF hist.spanlog[span[t].sid].ends = 0
               THEN [hist EXCEPT !.spanlog[span[t].sid].before =
                                     Append(@, << key, value >>)]
               ELSE hist
    /\ UNCHANGED << heap, metrics, reg_mutex, visitVars, pc, add_frame, local,
                    createVars, scrape, body, sink, rand_state, quota, visit_log,
                    nodeVars >>

\* span->End(), called by the scope itself
Span_End(t, duration) ==
    /\ pc[t] = "scope"
    /\ hist.spanlog[span[t].sid].ends < MaxEnds
    /\ sink' = SinkAfterEnd(span[t], sink, duration)
    /\ span' = [span EXCEPT ![t] = SpanAfterEnd(@)]
    /\ hist' = [hist EXCEPT
                   !.spanlog[span[t].sid] =
                       [@ EXCEPT !.ends = @ + 1]]
    /\ UNCHANGED << heap, metrics, reg_mutex, visitVars, pc, add_frame, local,
                    createVars, scrape, body, rand_state, quota, visit_log, nodeVars >>

\* The scope is left: ~unique_ptr runs ~Span
Span_ScopeExit(t, kind, duration) ==
    /\ pc[t] = "scope"
    /\ sink' = SinkAfterDestructor(span[t], sink, duration)
    /\ span' = [span EXCEPT ![t] = NoSpan]
    /\ hist' = [hist EXCEPT
                   !.spanlog[span[t].sid] =
                       [@ EXCEPT !.exit = kind]]
    /\ pc' = [pc EXCEPT ![t] = "idle"]
    /\ UNCHANGED << heap, metrics, reg_mutex, visitVars, add_frame, local,
                    createVars, scrape, body, rand_state, quota, visit_log, nodeVars >>

SpanInit ==
    /\ Constructed
    /\ quota = [NoQuota EXCEPT !.spans = MaxSpans, !.attrs = MaxAttrs]

SpanNext ==
    \E t \in Threads :
        \/ \E name \in SpanNames : Span_Start(t, name)
        \/ \E key \in AttrKeys, value \in AttrValues : Span_SetAttribute(t, key, value)
        \/ \E duration \in Durations : Span_End(t, duration)
        \/ \E kind \in ExitKinds, duration \in Durations :
               Span_ScopeExit(t, kind, duration)

SpanSpec == SpanInit /\ [][SpanNext]_vars

(***************************************************************************)
(* Helpers of the properties.                                              *)
(***************************************************************************)
\* The lines of a text, each without its newline.
RECURSIVE Lines(_)
Lines(text) ==
    LET pos == Find(text, "\n") IN
    IF pos = 0 THEN (IF text = "" THEN << >> ELSE << text >>)
    ELSE << SubSeq(text, 1, pos - 1) >> \o Lines(SubSeq(text, pos + 1, Len(text)))

StartsWith(s, prefix) == Len(s) >= Len(prefix) /\ SubSeq(s, 1, Len(prefix)) = prefix

\* What follows the last blank of a line: the value of a value line.
RECURSIVE LastField(_)
LastField(line) ==
    LET pos == Find(line, " ") IN
    IF pos = 0 THEN line ELSE LastField(SubSeq(line, pos + 1, Len(line)))

RECURSIVE SumOver(_, _)
SumOver(S, f) ==
    IF S = {} THEN 0
    ELSE LET e == CHOOSE e \in S : TRUE IN f[e].sum + SumOver(S \ {e}, f)

\* What the history says the values map of the Metric at m must hold: for every
\* label key some call canonicalized to, the sum of the deltas of those calls.
ExpectedValues(m) ==
    LET calls == hist.issued[m] IN
    [k \in {LabelKey(L) : L \in DOMAIN calls} |->
        SumOver({L \in DOMAIN calls : LabelKey(L) = k}, calls)]

\* The value lines of the Metric at m: its text without the two comment lines.
ValueLinesOf(m) == LET l == Lines(MetricText(m)) IN SubSeq(l, 3, Len(l))

(***************************************************************************)
(* C1.  Once every Add call on a Metric has returned, the accumulator of   *)
(* each canonical label key is the sum of the deltas of exactly the calls  *)
(* whose label set canonicalizes to that key, and there is no other key:   *)
(* no update is lost or applied twice, whatever the interleaving.          *)
(***************************************************************************)
C1_LinearizableAccumulation ==
    \A m \in DOMAIN heap : Settled(m) => heap[m].values = ExpectedValues(m)

\* Three calls have returned, two of them on one label set, 1 and 5 summed.
C1_Witness ==
    /\ quota.adds = 0
    /\ \E m \in DOMAIN heap :
          /\ Settled(m)
          /\ \E L \in DOMAIN hist.issued[m] :
                /\ hist.issued[m][L].n = 2
                /\ heap[m].values[LabelKey(L)] = 6
          /\ Cardinality(DOMAIN heap[m].values) = 2

(***************************************************************************)
(* C8.  A Metric whose Add calls all had the empty label set serializes to *)
(* exactly three lines: # HELP name description, # TYPE name counter and   *)
(* the bare line name value, value being the sum of the deltas; for name   *)
(* c, description d and Add(5, {}) the text is the literal one.            *)
(***************************************************************************)
C8_BareForm ==
    \A m \in DOMAIN heap :
        (Settled(m) /\ DOMAIN hist.issued[m] = {NoLabels}) =>
            /\ Lines(MetricText(m)) =
                   << "# HELP " \o heap[m].name \o " " \o heap[m].description,
                      "# TYPE " \o heap[m].name \o " counter",
                      heap[m].name \o " " \o IntToStr(hist.issued[m][NoLabels].sum) >>
            /\ (heap[m].name = "c" /\ hist.issued[m][NoLabels].sum = 5) =>
                   MetricText(m) = "# HELP c d\n# TYPE c counter\nc 5\n"

\* A caller holds the literal text of the example.
C8_Witness ==
    \E t \in Threads :
        /\ body[t].kind = "metric"
        /\ body[t].text = "# HELP c d\n# TYPE c counter\nc 5\n"
        /\ hist.issued[1] = [L \in {NoLabels} |-> [sum |-> 5, n |-> 1]]

(***************************************************************************)
(* C9.  A Metric serializes one value line per distinct label set that has *)
(* been added to, the line carrying the accumulated sum of that label set, *)
(* and the lines are in ascending order of canonical label key.            *)
(***************************************************************************)
C9_OneLinePerLabelSet ==
    \A m \in DOMAIN heap :
        Settled(m) =>
            LET calls   == hist.issued[m]
                lines   == ValueLinesOf(m)
                Rank(L) == 1 + Cardinality({L2 \in DOMAIN calls :
                                               StrLess(LabelKey(L2), LabelKey(L))})
            IN  /\ Len(lines) = Cardinality(DOMAIN calls)
                /\ \A L \in DOMAIN calls :
                       /\ Rank(L) \in 1..Len(lines)
                       /\ LastField(lines[Rank(L)]) = IntToStr(calls[L].sum)

(***************************************************************************)
(* C2.  However concurrent CreateCounter calls with one name interleave,   *)
(* with equal or different descriptions: only one Metric object is ever    *)
(* made for the name, every call returns the address the registry holds    *)
(* for it, and the text of GetAllMetrics, in whatever order it visits the  *)
(* entries, has exactly one # HELP line for the name.                      *)
(***************************************************************************)
HelpLines(text, name) ==
    LET l == Lines(text)
    IN  Cardinality({i \in 1..Len(l) : StartsWith(l[i], "# HELP " \o name \o " ")})

C2_SingleInstancePerName ==
    /\ \A i, j \in DOMAIN heap : heap[i].name = heap[j].name => i = j
    /\ \A r \in hist.returned : r[1] \in DOMAIN metrics /\ r[3] = metrics[r[1]]
    /\ \A n \in DOMAIN metrics : heap[metrics[n]].name = n
    /\ AllSettled =>
           \A order \in Orders(DOMAIN metrics), n \in DOMAIN metrics :
               HelpLines(GetAllMetrics(order), n) = 1

\* Two calls with one name and the descriptions d and e have returned, with the
\* same address, and a caller holds a serialization of the registry.
C2_Witness ==
    /\ quota.creates = 0
    /\ AllSettled
    /\ \E n \in LibNames, m \in DOMAIN heap :
           /\ { << n, "d", m >>, << n, "e", m >> } \subseteq hist.returned
           /\ \E t \in Threads :
                  body[t].kind = "registry" /\ HelpLines(body[t].text, n) = 1

(***************************************************************************)
(* C10.  GetAllMetrics emits every registered Metric exactly once, in      *)
(* ascending order of metric name, each block followed by a blank line, so *)
(* that the output does not depend on the order of registration.           *)
(***************************************************************************)
C10_AscendingNameOrder ==
    [][\A t \in Threads :
           (body'[t] # body[t] /\ body'[t].kind = "registry") =>
               body'[t].text = GetAllMetrics(SortedStrings(DOMAIN metrics))]_vars

(***************************************************************************)
(* C3.  When incrementTotal has been called K times, by whatever threads   *)
(* and in whatever interleaving, and every call has returned, getTotal()   *)
(* returns K.                                                              *)
(***************************************************************************)
\* VisitCounter::getTotal
GetTotal == total_counter

\* Thread t has called incrementTotal and the call has not returned.
InIncrementTotal(t) ==
    \/ pc[t] = "incrementTotal" /\ count[t] # 0
    \/ pc[t] \in AddPcs /\ add_frame[t].ret = "incrementPath"

C3_TotalAtomicity ==
    (\A t \in Threads : ~InIncrementTotal(t)) => GetTotal = hist.incrementTotal

\* Two requests were in incrementTotal's Add at once and both calls have returned.
C3_Witness ==
    /\ \A t \in Threads : ~InIncrementTotal(t)
    /\ hist.incrementTotal = 2
    /\ GetTotal = 2
    /\ \A t \in Threads : pc[t] = "incrementPath"

(***************************************************************************)
(* C4.  No thread reads a Metric's values map in GetPrometheusFormat while *)
(* another thread is inside Add on the same Metric: every access to the    *)
(* map is made with the Metric's mutex held.                               *)
(***************************************************************************)
\* Thread t is reading the values map of the Metric at m in GetPrometheusFormat.
Reading(t, m) == pc[t] = "GPF" /\ scrape[t].m = m

\* Thread t is in Add on the Metric at m, past the lock_guard.
Updating(t, m) == pc[t] \in {"Add_load", "Add_store"} /\ add_frame[t].m = m

C4_NoReadDuringAdd ==
    \A t, u \in Threads, m \in DOMAIN heap :
        ~(t # u /\ Reading(t, m) /\ Updating(u, m))

(***************************************************************************)
(* C5.  Whenever no handler is between its incrementTotal and the end of   *)
(* its incrementPath, getTotal() equals the sum of the values of           *)
(* getPathCounters(); and when every accepted request is served to its     *)
(* end, that equality is reached again and again.                          *)
(***************************************************************************)
\* Thread t has incremented the total and not yet returned from incrementPath.
BetweenIncrements(t) ==
    pc[t] \in AddPcs \cup CreatePcs
              \cup {"incrementPath", "IP_count", "IP_add", "IP_unlock"}

RECURSIVE SumValues(_, _)
SumValues(S, f) ==
    IF S = {} THEN 0
    ELSE LET k == CHOOSE k \in S : TRUE IN f[k] + SumValues(S \ {k}, f)

TotalMatchesPaths == GetTotal = SumValues(DOMAIN path_counters, path_counters)

C5_EventualConsistency ==
    /\ []((\A t \in Threads : ~BetweenIncrements(t)) => TotalMatchesPaths)
    /\ []<>TotalMatchesPaths

\* Two requests for different paths have been counted and the two agree.
C5_Witness ==
    /\ \A t \in Threads : ~BetweenIncrements(t)
    /\ GetTotal = 2
    /\ Cardinality(DOMAIN path_counters) = 2
    /\ TotalMatchesPaths

(***************************************************************************)
(* C6.  However often End() is called on a span, once or more, exactly one *)
(* record of the span is written; an ended span stays ended; and the       *)
(* record holds the attributes set before the first End(), none set after. *)
(***************************************************************************)
RecordsOf(sid) == {i \in 1..Len(sink) : sink[i].sid = sid}

EndedOnce ==
    \A sid \in DOMAIN hist.spanlog :
        hist.spanlog[sid].ends >= 1 =>
            /\ Cardinality(RecordsOf(sid)) = 1
            /\ \A i \in RecordsOf(sid) :
                   sink[i].attributes = hist.spanlog[sid].before

StaysEnded ==
    \A t \in Threads :
        (span[t].ended /\ span'[t].alive /\ span'[t].sid = span[t].sid)
            => span'[t].ended

C6_EndIdempotent == []EndedOnce /\ [][StaysEnded]_vars

\* End() was called twice on a span, with an attribute set between the calls.
C6_Witness ==
    \E t \in Threads :
        /\ span[t].alive
        /\ hist.spanlog[span[t].sid].ends = 2
        /\ Len(span[t].attributes) > Len(hist.spanlog[span[t].sid].before)
        /\ Cardinality(RecordsOf(span[t].sid)) = 1

(***************************************************************************)
(* C7.  Once the scope owning a span has been left, by a return, an early  *)
(* return or an exception, and whether End() was called by the scope zero, *)
(* one or several times, exactly one record of the span has been written.  *)
(***************************************************************************)
C7_EndedAtScopeExit ==
    \A sid \in DOMAIN hist.spanlog :
        hist.spanlog[sid].exit # "" => Cardinality(RecordsOf(sid)) = 1

\* One scope was left by an exception without a call of End(), another by a
\* return after two calls.
C7_Witness ==
    \E a, b \in DOMAIN hist.spanlog :
        /\ hist.spanlog[a].exit = "exception" /\ hist.spanlog[a].ends = 0
        /\ hist.spanlog[b].exit = "return" /\ hist.spanlog[b].ends = 2
        /\ Cardinality(RecordsOf(a)) = 1
        /\ Cardinality(RecordsOf(b)) = 1

(***************************************************************************)
(* C11.  A registered name keeps its Metric and the Metric its description: *)
(* no step changes the address registered for a name or the description of *)
(* a Metric, no step of CreateCounter changes the values of a Metric, and   *)
(* the Metric a call inserts carries the description that call was given.  *)
(***************************************************************************)
FirstDescriptionWins ==
    /\ \A n \in DOMAIN metrics :
           /\ n \in DOMAIN metrics'
           /\ metrics'[n] = metrics[n]
           /\ heap'[metrics[n]].description = heap[metrics[n]].description
    /\ \A t \in Threads :
           (pc[t] \in CreatePcs /\ pc'[t] # pc[t]) =>
               /\ \A m \in DOMAIN heap : heap'[m].values = heap[m].values
               /\ (pc[t] = "CC_insert" /\ cc_frame[t].name \notin DOMAIN metrics) =>
                      heap'[metrics'[cc_frame[t].name]].description
                          = cc_frame[t].description

C11_FirstDescriptionWins == [][FirstDescriptionWins]_vars

\* Two calls for one name, with the descriptions d and e, have returned; the
\* Metric has the description e and the value an Add gave it.
C11_Witness ==
    /\ quota.creates = 0
    /\ AllSettled
    /\ \E n \in LibNames, m \in DOMAIN heap :
           /\ { << n, "d", m >>, << n, "e", m >> } \subseteq hist.returned
           /\ heap[m].description = "e"
           /\ heap[m].values = [k \in {""} |-> 5]

(***************************************************************************)
(* C12.  The values incrementTotal returns (its local count, fixed by the  *)
(* pre-increment) over K calls are 1..K, each once: the calls made so far  *)
(* were given 1, 2, ... in the order of their increments, and no two       *)
(* requests in progress hold the same visit number.                        *)
(***************************************************************************)
C12_DistinctVisitNumbers ==
    /\ hist.counts = [i \in 1..hist.incrementTotal |-> i]
    /\ \A t, u \in Threads :
           (t # u /\ count[t] # 0 /\ count[u] # 0) => count[t] # count[u]

\* Two requests are in progress at once; the later one to start was given
\* visit number 1 and the earlier one 2.
C12_Witness ==
    /\ count[1] = 2
    /\ count[2] = 1
    /\ hist.counts = << 1, 2 >>

(***************************************************************************)
(* C13.  The map getPathCounters returns is path_counters as it is at the  *)
(* instant of the copy, an instant at which no incrementPath is part way   *)
(* through its critical section; it holds the caller's own completed       *)
(* increment; and no later step changes the copy the caller holds.         *)
(***************************************************************************)
\* Thread u is inside the critical section of incrementPath.
InIncrementPath(u) ==
    \/ pc[u] \in {"IP_count", "IP_add", "IP_unlock"}
    \/ pc[u] \in CreatePcs /\ cc_frame[u].ret = "IP_add"
    \/ pc[u] \in AddPcs /\ add_frame[u].ret = "IP_unlock"

ConsistentSnapshot ==
    \A t \in Threads :
        /\ (pc[t] = "respond" /\ pc'[t] = "stats_total") =>
               /\ body'[t].paths = path_counters
               /\ \A u \in Threads : ~InIncrementPath(u)
               /\ "/stats" \in DOMAIN body'[t].paths
               /\ body'[t].paths["/stats"] >= 1
        /\ (pc[t] \in {"stats_total", "finish"} /\ pc'[t] \in {"stats_total", "finish"}) =>
               body'[t].paths = body[t].paths

C13_ConsistentSnapshot == [][ConsistentSnapshot]_vars

\* A /stats handler holds its copy while another request has since been counted:
\* the copy still has the one path it was taken with.
C13_Witness ==
    \E t \in Threads :
        /\ pc[t] \in {"stats_total", "finish"}
        /\ body[t].kind = "stats"
        /\ DOMAIN body[t].paths = {"/stats"}
        /\ Cardinality(DOMAIN path_counters) = 2

(***************************************************************************)
(* C14.  Whenever path_mutex is free, or held by a reader (a scrape in     *)
(* getPrometheusMetrics), every visited path p has a cached Metric whose   *)
(* accumulator for the label set {path: p} equals path_counters[p].        *)
(***************************************************************************)
\* The accumulator of the label set {path: p} in the Metric cached for p.
PathSeries(p) ==
    MapGet(heap[path_metrics[p]].values, LabelKey(PathLabels(p)))

C14_PathCounterMatchesSeries ==
    (\A u \in Threads : path_mutex = u => ~InIncrementPath(u)) =>
        \A p \in DOMAIN path_counters :
            /\ p \in DOMAIN path_metrics
            /\ PathSeries(p) = path_counters[p]

\* A scrape holds path_mutex and is serializing a Metric while two paths have
\* been visited, and the two counts of each path agree.
C14_Witness ==
    \E t \in Threads :
        /\ path_mutex = t
        /\ pc[t] = "GPF"
        /\ Cardinality(DOMAIN path_counters) = 2
        /\ \A p \in DOMAIN path_counters : PathSeries(p) = path_counters[p]

(***************************************************************************)
(* C15.  SetAttribute on a span that has ended changes nothing: in no step *)
(* does the attribute sequence of an ended span change, does the span stop *)
(* being ended, or does the set of its records change.                     *)
(***************************************************************************)
NoOpAfterEnd ==
    \A t \in Threads :
        (span[t].ended /\ span'[t].alive /\ span'[t].sid = span[t].sid) =>
            /\ span'[t].attributes = span[t].attributes
            /\ span'[t].ended
            /\ {sink'[i] : i \in {j \in 1..Len(sink') : sink'[j].sid = span[t].sid}}
                   = {sink[i] : i \in RecordsOf(span[t].sid)}

C15_SetAttributeAfterEndIsNoOp == [][NoOpAfterEnd]_vars

(***************************************************************************)
(* C16.  The label key does not depend on the order in which the label     *)
(* pairs reach Add: every iteration order of a label set that was added    *)
(* gives the key of the set, and a Metric that received one label set      *)
(* only, in whatever orders, has one accumulator and one value line.       *)
(***************************************************************************)
C16_KeyIndependentOfOrder ==
    \A m \in DOMAIN heap :
        Settled(m) =>
            \A L \in DOMAIN hist.issued[m] :
                /\ \A order \in Orders(DOMAIN L) : LabelKeyIn(order, L) = LabelKey(L)
                /\ DOMAIN hist.issued[m] = {L} =>
                       /\ DOMAIN heap[m].values = {LabelKey(L)}
                       /\ heap[m].values[LabelKey(L)] = hist.issued[m][L].sum
                       /\ Len(ValueLinesOf(m)) = 1

\* One label set of two pairs was added twice to a Metric, once in each order,
\* and nothing else: the Metric has one accumulator holding both deltas.
C16_Witness ==
    \E m \in DOMAIN heap, L \in LibLabelSets :
        /\ Settled(m)
        /\ DOMAIN hist.issued[m] = {L}
        /\ {<< m, L, << "a", "c" >> >>, << m, L, << "c", "a" >> >>} \subseteq hist.orders
        /\ hist.issued[m][L].n = 2
        /\ heap[m].values = [k \in {"a:b;c:d;"} |-> 6]

(***************************************************************************)
(* VisitCounter driven directly: callers record visits (incrementTotal,    *)
(* then incrementPath, as every handler does) while readers call getTotal  *)
(* and getPathCounters, in either order.                                   *)
(***************************************************************************)
\* The paths the visits are recorded for: incrementPath takes any string, and
\* these two are given the same metric_name.
VisitPaths == {"/", "/root"}

Lib_Visit(t, path) ==
    /\ Takes(t)
    /\ quota.requests > 0
    /\ quota' = [quota EXCEPT !.requests = @ - 1]
    /\ req' = [req EXCEPT ![t] = path]
    /\ pc' = [pc EXCEPT ![t] = "incrementTotal"]
    /\ UNCHANGED << heap, metrics, reg_mutex, total_counter, path_mutex,
                    path_counters, path_metrics, count, add_frame, local,
                    createVars, scrape, body, spanVars, hist, visit_log, nodeVars >>

\* incrementPath has returned to the caller
Lib_VisitReturn(t) ==
    /\ pc[t] = "visited"
    /\ req' = [req EXCEPT ![t] = ""]
    /\ count' = [count EXCEPT ![t] = 0]
    /\ handle' = [handle EXCEPT ![t] = NoMetric]
    /\ pc' = [pc EXCEPT ![t] = "idle"]
    /\ UNCHANGED << heap, metrics, reg_mutex, total_counter, path_mutex,
                    path_counters, path_metrics, add_frame, local, cc_frame,
                    found, scrape, body, spanVars, quota, hist, visit_log, nodeVars >>

\* A reader starts; first is the getter it calls first.
Lib_Read(t, first) ==
    /\ Takes(t)
    /\ quota.reads > 0
    /\ quota' = [quota EXCEPT !.reads = @ - 1]
    /\ body' = [body EXCEPT ![t] = [NoBody EXCEPT !.kind = "reader"]]
    /\ pc' = [pc EXCEPT ![t] = IF first = "getTotal" THEN "R_total_1" ELSE "R_paths_1"]
    /\ UNCHANGED << heap, metrics, reg_mutex, visitVars, add_frame, local,
                    createVars, scrape, spanVars, hist, visit_log, nodeVars >>

\* How far the total a reader got is ahead of the sum of the path counts it got.
Seen(b) == b.total - SumValues(DOMAIN b.paths, b.paths)

\* getTotal: total_counter.load(); a reader that has both values compares them
Lib_GetTotal(t) ==
    /\ pc[t] \in {"R_total_1", "R_total_2"}
    /\ IF pc[t] = "R_total_1"
       THEN /\ body' = [body EXCEPT ![t].total = GetTotal]
            /\ pc' = [pc EXCEPT ![t] = "R_paths_2"]
            /\ UNCHANGED hist
       ELSE /\ hist' = [hist EXCEPT
                           !.seen = @ \cup {Seen([body[t] EXCEPT !.total = GetTotal])}]
            /\ body' = [body EXCEPT ![t] = NoBody]
            /\ pc' = [pc EXCEPT ![t] = "idle"]
    /\ UNCHANGED << heap, metrics, reg_mutex, visitVars, add_frame, local,
                    createVars, scrape, spanVars, quota, visit_log, nodeVars >>

\* getPathCounters: the copy of path_counters made with path_mutex held; a
\* reader that has both values compares them
Lib_GetPathCounters(t) ==
    /\ pc[t] \in {"R_paths_1", "R_paths_2"}
    /\ path_mutex = NoThread
    /\ IF pc[t] = "R_paths_1"
       THEN /\ body' = [body EXCEPT ![t].paths = path_counters]
            /\ pc' = [pc EXCEPT ![t] = "R_total_2"]
            /\ UNCHANGED hist
       ELSE /\ hist' = [hist EXCEPT
                           !.seen = @ \cup {Seen([body[t] EXCEPT !.paths = path_counters])}]
            /\ body' = [body EXCEPT ![t] = NoBody]
            /\ pc' = [pc EXCEPT ![t] = "idle"]
    /\ UNCHANGED << heap, metrics, reg_mutex, visitVars, add_frame, local,
                    createVars, scrape, spanVars, quota, visit_log, nodeVars >>

VisitInit ==
    /\ Constructed
    /\ quota = [NoQuota EXCEPT !.requests = MaxRequests, !.reads = MaxRequests]

VisitNext ==
    \E t \in Threads :
        \/ \E path \in VisitPaths : Lib_Visit(t, path)
        \/ Lib_VisitReturn(t)
        \/ \E first \in {"getTotal", "getPathCounters"} : Lib_Read(t, first)
        \/ Lib_GetTotal(t)
        \/ Lib_GetPathCounters(t)
        \/ IncrementTotal(t)
        \/ Add_Lock(t)
        \/ Add_Load(t)
        \/ Add_Store(t)
        \/ IncrementPath_Lock(t)
        \/ IncrementPath_Count(t)
        \/ CreateCounter_Lock(t)
        \/ CreateCounter_Find(t)
        \/ CreateCounter_Insert(t)
        \/ CreateCounter_Return(t)
        \/ IncrementPath_Add(t)
        \/ IncrementPath_Unlock(t)

VisitSpec == VisitInit /\ [][VisitNext]_vars

(***************************************************************************)
(* C17.  While visits are being recorded concurrently a reader of getTotal *)
(* and getPathCounters can get a total greater than the sum of the path    *)
(* counts, and can get the reverse.  The two fields themselves differ by   *)
(* exactly the visits that have incremented the total and not yet the path *)
(* count, no reader is off by more than the visits made, and a reader that *)
(* copies the path counts first never gets them ahead.                     *)
(***************************************************************************)
\* The visits that have incremented total_counter and not yet path_counters.
Pending ==
    {t \in Threads :
        \/ pc[t] \in AddPcs /\ add_frame[t].ret = "incrementPath"
        \/ pc[t] \in {"incrementPath", "IP_count"}}

C17_TransientMismatch ==
    /\ GetTotal - SumValues(DOMAIN path_counters, path_counters) = Cardinality(Pending)
    /\ \A d \in hist.seen : d \in (0 - hist.incrementTotal)..hist.incrementTotal
    /\ \A t \in Threads :
           pc[t] = "R_total_2" =>
               SumValues(DOMAIN body[t].paths, body[t].paths) <= GetTotal

\* One reader got a total one visit ahead of the sum of its path counts, and one
\* got path counts one visit ahead of its total.
C17_Witness == {1, 0 - 1} \subseteq hist.seen

(***************************************************************************)
(* C18.  Counters only grow.  In no step does total_counter, an entry of   *)
(* path_counters or an accumulator of a Metric decrease, and in no step is *)
(* a path entry, a label series, a Metric object, a registered name or a   *)
(* cached Metric pointer removed or bound to something else.               *)
(***************************************************************************)
Grows(m) ==
    \A k \in DOMAIN m : k \in DOMAIN m' /\ m'[k] >= m[k]

Kept(m) ==
    \A k \in DOMAIN m : k \in DOMAIN m' /\ m'[k] = m[k]

NeverDecreases ==
    /\ total_counter' >= total_counter
    /\ Grows(path_counters)
    /\ Len(heap') >= Len(heap)
    /\ \A a \in 1..Len(heap) :
           /\ heap'[a].name = heap[a].name
           /\ Grows(heap[a].values)
    /\ Kept(metrics)
    /\ Kept(path_metrics)

C18_Monotonic == [][NeverDecreases]_vars

\* Two visits of one path are counted and another path has been entered: the
\* total, a path entry and a labelled series have each grown twice.
C18_Witness ==
    /\ total_counter = 2
    /\ \E p \in DOMAIN path_counters :
           /\ path_counters[p] = 2
           /\ p \in DOMAIN path_metrics
           /\ PathSeries(p) = 2
    /\ MapGet(heap[visit_counter].values, LabelKey(NoLabels)) = 2

(***************************************************************************)
(* C19.  Every request is traced by exactly one span.  A thread has a span *)
(* exactly while it is in a handler, and the span carries the name of the  *)
(* handler; every span made so far is either still open with no record or  *)
(* closed with exactly one; a record is written only in the step that      *)
(* leaves the handler, when the request's incrementTotal and incrementPath *)
(* have returned, so the records of a path never outnumber its counted     *)
(* visits; and every span that is made gets its record.                    *)
(***************************************************************************)
OpenSpans(sid) == {t \in Threads : span[t].alive /\ span[t].sid = sid}

RecordsFor(p) ==
    {i \in 1..Len(sink) :
        \E j \in 1..Len(sink[i].attributes) :
            sink[i].attributes[j] = << "http.path", p >>}

TracedOnce ==
    /\ \A t \in Threads :
           /\ span[t].alive <=> pc[t] # "idle"
           /\ span[t].alive => span[t].name = SpanName(req[t])
    /\ \A sid \in 1..hist.spans :
           /\ Cardinality(OpenSpans(sid)) + Cardinality(RecordsOf(sid)) = 1
           /\ \A t \in OpenSpans(sid) : ~span[t].ended
    /\ Len(sink) <= MapGet(heap[visit_counter].values, LabelKey(NoLabels))
    /\ \A p \in Paths :
           /\ Cardinality(RecordsFor(p)) <= MapGet(path_counters, p)
           /\ RecordsFor(p) # {} => p \in DOMAIN path_metrics
           /\ RecordsFor(p) # {} => Cardinality(RecordsFor(p)) <= PathSeries(p)

EmittedAfterCounting ==
    sink' # sink =>
        \E t \in Threads :
            /\ span[t].alive /\ ~span'[t].alive
            /\ sink' = Append(sink, sink'[Len(sink')])
            /\ sink'[Len(sink')].sid = span[t].sid
            /\ sink'[Len(sink')].name = SpanName(req[t])
            /\ count[t] \in 1..total_counter
            /\ ~InIncrementTotal(t)
            /\ ~InIncrementPath(t)
            /\ path_mutex # t

C19_TracedByOneSpan ==
    /\ []TracedOnce
    /\ [][EmittedAfterCounting]_vars
    /\ \A sid \in 1..MaxRequests :
           (hist.spans >= sid) ~> (Cardinality(RecordsOf(sid)) = 1)

\* The second request has left its handler and its record is written while the
\* first, entered earlier, is still inside incrementPath with its span open.
C19_Witness ==
    /\ Len(sink) = 1
    /\ sink[1].sid = 2
    /\ \E t \in Threads :
           /\ span[t].alive
           /\ span[t].sid = 1
           /\ InIncrementPath(t)

(***************************************************************************)
(* C20.  A per-path Metric belongs to one path: two distinct paths that    *)
(* incrementPath has been called with have distinct metric names and       *)
(* distinct Metric objects, and while no call of incrementPath is running  *)
(* the series of the Metric cached for a path add up to the path's count.  *)
(***************************************************************************)
SeriesSum(m) == SumValues(DOMAIN heap[m].values, heap[m].values)

C20_OneMetricPerPath ==
    /\ \A p, q \in DOMAIN path_metrics :
           p # q => /\ MetricName(p) # MetricName(q)
                    /\ path_metrics[p] # path_metrics[q]
    /\ (\A t \in Threads : ~InIncrementPath(t)) =>
           \A p \in DOMAIN path_metrics :
               SeriesSum(path_metrics[p]) = path_counters[p]

(***************************************************************************)
(* C22.  GetAllMetrics is free of races in the program.  A thread that     *)
(* iterates the registry's map, and a thread that is inside CreateCounter, *)
(* holds path_mutex; so no thread is inside CreateCounter while another    *)
(* iterates, and the map does not change in a step taken while some thread *)
(* iterates it.                                                            *)
(***************************************************************************)
Iterating(t) == pc[t] \in {"GAM", "GPF"}

IterationUndisturbed ==
    /\ \A t \in Threads :
           /\ Iterating(t) => path_mutex = t
           /\ Iterating(t) => reg_mutex # t
           /\ pc[t] \in CreatePcs => path_mutex = t
           /\ \A u \in Threads \ {t} : ~(Iterating(t) /\ pc[u] \in CreatePcs)
    /\ metrics' # metrics => \A t \in Threads : ~Iterating(t)

C22_ScrapeRaceFree == [][IterationUndisturbed]_vars

\* A scrape is half way through the registry while another thread waits in
\* incrementPath for a path whose Metric is not yet registered.
C22_Witness ==
    \E t, u \in Threads :
        /\ pc[t] = "GPF"
        /\ scrape[t].visited # DOMAIN metrics
        /\ pc[u] = "incrementPath"
        /\ req[u] \notin DOMAIN path_metrics

(***************************************************************************)
(* C23.  The registry's mutex is held only between the lock and the return *)
(* of CreateCounter, a Metric's mutex only between the lock and the return *)
(* of Add, and no thread holds the registry's mutex and a Metric's mutex   *)
(* at once.                                                                *)
(***************************************************************************)
MetricMutexes(t) == {m \in DOMAIN heap : heap[m].mutex = t}

C23_RegistryAndMetricLocksDisjoint ==
    \A t \in Threads :
        /\ reg_mutex = t <=> pc[t] \in {"CC_find", "CC_insert", "CC_return"}
        /\ MetricMutexes(t) # {} <=> pc[t] \in {"Add_load", "Add_store"}
        /\ MetricMutexes(t) \subseteq {add_frame[t].m}
        /\ ~(reg_mutex = t /\ MetricMutexes(t) # {})

\* A thread that got a Metric from CreateCounter is inside Add on it, holding
\* its mutex, while another thread is inside CreateCounter holding the
\* registry's.
C23_Witness ==
    \E t, u \in Threads :
        /\ reg_mutex = u
        /\ pc[u] = "CC_insert"
        /\ MetricMutexes(t) # {}
        /\ \E r \in hist.returned : r[3] \in MetricMutexes(t)

(***************************************************************************)
(* C24.  No deadlock.  While some request is being served some thread can  *)
(* take a step; a thread takes path_mutex only while it holds no other     *)
(* mutex, and takes the registry's mutex or a Metric's mutex only while it *)
(* holds at most path_mutex; and, every thread that can take a step being  *)
(* scheduled, every request that is being served is served to its end.     *)
(***************************************************************************)
Held(t) ==
    (IF path_mutex = t THEN {"path_mutex"} ELSE {})
        \cup (IF reg_mutex = t THEN {"registry"} ELSE {})
        \cup (IF MetricMutexes(t) # {} THEN {"metric"} ELSE {})

SomeStepPossible ==
    (\E t \in Threads : pc[t] # "idle") => \E t \in Threads : ENABLED Serve(t)

LockOrder ==
    \A t \in Threads :
        /\ (path_mutex # t /\ path_mutex' = t) => Held(t) = {}
        /\ (reg_mutex # t /\ reg_mutex' = t) => Held(t) \subseteq {"path_mutex"}
        /\ (MetricMutexes(t) = {} /\ MetricMutexes(t)' # {})
               => Held(t) \subseteq {"path_mutex"}

C24_NoDeadlock ==
    /\ []SomeStepPossible
    /\ [][LockOrder]_vars
    /\ \A t \in Threads : (pc[t] # "idle") ~> (pc[t] = "idle")

\* One thread is inside CreateCounter, called by incrementPath: it holds
\* path_mutex and the registry's mutex; the other holds the mutex of the total
\* Metric, inside incrementTotal, and will ask for path_mutex next.
C24_Witness ==
    \E t, u \in Threads :
        /\ Held(t) = {"path_mutex", "registry"}
        /\ Held(u) = {"metric"}
        /\ add_frame[u].ret = "incrementPath"

(***************************************************************************)
(* C25.  Nothing is written to the console under a lock.  A visit line or  *)
(* a span record is appended only by a thread that holds no mutex, before  *)
(* and after the step; and a thread that is about to write its visit line  *)
(* or to leave its handler holds none.                                     *)
(***************************************************************************)
WritesConsole(t) ==
    \/ pc[t] = "visited" /\ pc'[t] = "respond" /\ visit_log' # visit_log
    \/ span[t].alive /\ ~span'[t].alive /\ sink' # sink

OutputUnlocked ==
    /\ (sink' # sink \/ visit_log' # visit_log) =>
           \E t \in Threads : WritesConsole(t) /\ Held(t) = {} /\ Held(t)' = {}
    /\ \A t \in Threads : pc[t] \in {"visited", "finish"} => Held(t) = {}

C25_NoOutputUnderLock == [][OutputUnlocked]_vars

\* A /metrics request has written its visit line, has been through
\* getPrometheusMetrics and is about to write its span record, while the
\* other thread holds path_mutex inside incrementPath.
C25_Witness ==
    \E t, u \in Threads :
        /\ pc[t] = "finish"
        /\ req[t] = "/metrics"
        /\ \E i \in 1..Len(visit_log) : visit_log[i].path = "/metrics"
        /\ "path_mutex" \in Held(u)
        /\ InIncrementPath(u)

(***************************************************************************)
(* VisitCounter::incrementPath driven with any std::string: the empty one, *)
(* one that does not start with '/', and a route.                          *)
(***************************************************************************)
ArgPaths == {"", "ab", "/"}

\* The exception of incrementPath reaches the caller, which goes on
Lib_VisitThrown(t) ==
    /\ pc[t] = "threw"
    /\ req' = [req EXCEPT ![t] = ""]
    /\ count' = [count EXCEPT ![t] = 0]
    /\ hist' = [hist EXCEPT !.thrown = @ + 1]
    /\ pc' = [pc EXCEPT ![t] = "idle"]
    /\ UNCHANGED << heap, metrics, reg_mutex, total_counter, path_mutex,
                    path_counters, path_metrics, add_frame, local, createVars,
                    scrape, body, spanVars, quota, visit_log, nodeVars >>

ArgInit ==
    /\ Constructed
    /\ quota = [NoQuota EXCEPT !.requests = MaxRequests]

ArgNext ==
    \E t \in Threads :
        \/ \E path \in ArgPaths : Lib_Visit(t, path)
        \/ Lib_VisitReturn(t)
        \/ Lib_VisitThrown(t)
        \/ IncrementTotal(t)
        \/ Add_Lock(t)
        \/ Add_Load(t)
        \/ Add_Store(t)
        \/ IncrementPath_Lock(t)
        \/ IncrementPath_Count(t)
        \/ CreateCounter_Lock(t)
        \/ CreateCounter_Find(t)
        \/ CreateCounter_Insert(t)
        \/ CreateCounter_Return(t)
        \/ IncrementPath_Add(t)
        \/ IncrementPath_Unlock(t)

ArgSpec == ArgInit /\ [][ArgNext]_vars

(***************************************************************************)
(* C26.  incrementPath returns normally for every string: no call ends in  *)
(* an exception, and once no call is running every path that was counted   *)
(* has a cached Metric whose series {path: p} equals path_counters[p].     *)
(***************************************************************************)
C26_IncrementPathTotal ==
    /\ \A t \in Threads : pc[t] # "threw"
    /\ hist.thrown = 0
    /\ (\A t \in Threads : ~InIncrementPath(t)) =>
           \A p \in DOMAIN path_counters :
               /\ p \in DOMAIN path_metrics
               /\ PathSeries(p) = path_counters[p]

(***************************************************************************)
(* C27.  The canonical key can collide.  The label sets {a: "b;c:d"} and   *)
(* {a: "b", c: "d"} differ, and once both have been added to a Metric and  *)
(* no Add is in progress the Metric holds one accumulator "a:b;c:d;" with  *)
(* the sum of the deltas of both, has fewer accumulators than label sets   *)
(* added, and serializes fewer value lines than label sets added.          *)
(***************************************************************************)
SemicolonInValue == [k \in {"a"} |-> "b;c:d"]
TwoPairs == [k \in {"a", "c"} |-> IF k = "a" THEN "b" ELSE "d"]

C27_KeysCollide ==
    \A m \in DOMAIN heap :
        (Settled(m) /\ {SemicolonInValue, TwoPairs} \subseteq DOMAIN hist.issued[m]) =>
            /\ SemicolonInValue # TwoPairs
            /\ "a:b;c:d;" \in DOMAIN heap[m].values
            /\ heap[m].values["a:b;c:d;"] =
                   hist.issued[m][SemicolonInValue].sum + hist.issued[m][TwoPairs].sum
            /\ Cardinality(DOMAIN heap[m].values) < Cardinality(DOMAIN hist.issued[m])
            /\ Len(ValueLinesOf(m)) < Cardinality(DOMAIN hist.issued[m])

\* Both label sets were added to one Metric, and nothing else: a caller holds
\* its text, which has a single value line.
C27_Witness ==
    \E t \in Threads, m \in DOMAIN heap :
        /\ Settled(m)
        /\ DOMAIN hist.issued[m] = {SemicolonInValue, TwoPairs}
        /\ body[t].kind = "metric"
        /\ body[t].text = MetricText(m)
        /\ Len(ValueLinesOf(m)) = 1

(***************************************************************************)
(* One Metric given label sets whose keys hold no ':' and no ';' and whose *)
(* values hold no ';': empty keys, empty values and values with ':' are    *)
(* among them.  The calls are made one after the other.                    *)
(***************************************************************************)
MaxKeyAdds == 2
KeyStrings == {"", "a"}
ValueStrings == {"", "a", ":", "a:"}

KeyLabelSets ==
    UNION { [D -> ValueStrings] : D \in {S \in SUBSET KeyStrings : Cardinality(S) <= 2} }

KeyInit ==
    /\ Fresh
    /\ heap = << NewMetric("c", "d") >>
    /\ metrics = [k \in {"c"} |-> 1]
    /\ quota = [NoQuota EXCEPT !.adds = MaxKeyAdds]

KeyNext ==
    \E t \in Threads :
        \/ AllSettled /\ \E labels \in KeyLabelSets : Lib_Add(t, 1, 1, labels)
        \/ Add_Lock(t)
        \/ Add_Load(t)
        \/ Add_Store(t)

KeySpec == KeyInit /\ [][KeyNext]_vars

(***************************************************************************)
(* C28.  On such label sets the canonical key is injective: two different  *)
(* label sets added to a Metric have different keys and an accumulator     *)
(* each, holding the deltas of its own label set only, and the empty key   *)
(* is held exactly when the empty label set was added.                     *)
(***************************************************************************)
C28_KeyInjective ==
    \A m \in DOMAIN heap :
        Settled(m) =>
            /\ \A L1, L2 \in DOMAIN hist.issued[m] :
                   L1 # L2 => LabelKey(L1) # LabelKey(L2)
            /\ Cardinality(DOMAIN heap[m].values) = Cardinality(DOMAIN hist.issued[m])
            /\ \A L \in DOMAIN hist.issued[m] :
                   /\ LabelKey(L) \in DOMAIN heap[m].values
                   /\ heap[m].values[LabelKey(L)] = hist.issued[m][L].sum
            /\ "" \in DOMAIN heap[m].values <=> NoLabels \in DOMAIN hist.issued[m]

\* The label set with one empty key and an empty value and the empty label set
\* have both been added: two accumulators, ":;" and "".
C28_Witness ==
    /\ Settled(1)
    /\ DOMAIN hist.issued[1] = {NoLabels, [k \in {""} |-> ""]}
    /\ DOMAIN heap[1].values = {"", ":;"}

(***************************************************************************)
(* C29.  Serialization gives back the label set.  For every label set      *)
(* added to a Metric, once no Add is in progress the text of the Metric    *)
(* has a value line whose label list is exactly the pairs of the label     *)
(* set, each once as key="value", in ascending order of key, separated by  *)
(* commas (and no label list for the empty label set).                     *)
(***************************************************************************)
RECURSIVE PairsText(_, _)
PairsText(keys, labels) ==
    IF keys = << >> THEN ""
    ELSE Head(keys) \o "=\"" \o labels[Head(keys)] \o "\""
             \o (IF Len(keys) > 1 THEN "," ELSE "")
             \o PairsText(Tail(keys), labels)

LineOf(m, L) ==
    heap[m].name
        \o (IF DOMAIN L = {} THEN ""
            ELSE "{" \o PairsText(SortedStrings(DOMAIN L), L) \o "}")
        \o " " \o IntToStr(heap[m].values[LabelKey(L)])

C29_LabelsRoundTrip ==
    \A m \in DOMAIN heap :
        Settled(m) =>
            \A L \in DOMAIN hist.issued[m] :
                \E i \in 1..Len(ValueLinesOf(m)) : ValueLinesOf(m)[i] = LineOf(m, L)

(***************************************************************************)
(* otel::Span driven with repeated keys: a scope makes a span, sets up to  *)
(* MaxRecordAttrs attributes on one key with either of two values, calls   *)
(* End() any number of times and is left.                                  *)
(***************************************************************************)
MaxRecordAttrs == 2
MaxRecordSpans == 1
RecordNames == {"work", "job"}
RecordValues == {"v", "w"}

RecordInit ==
    /\ Constructed
    /\ quota = [NoQuota EXCEPT !.spans = MaxRecordSpans, !.attrs = MaxRecordAttrs]

RecordNext ==
    \E t \in Threads :
        \/ \E name \in RecordNames : Span_Start(t, name)
        \/ \E key \in AttrKeys, value \in RecordValues : Span_SetAttribute(t, key, value)
        \/ \E duration \in Durations : Span_End(t, duration)
        \/ \E duration \in Durations : Span_ScopeExit(t, "return", duration)

RecordSpec == RecordInit /\ [][RecordNext]_vars

(***************************************************************************)
(* C30.  The record of a span holds the name the span was made with, the   *)
(* trace and span ids drawn from std::rand when it was made, and exactly   *)
(* the attributes set before the first End(), as many entries as calls of  *)
(* SetAttribute and in the order of the calls, a repeated key included.    *)
(***************************************************************************)
\* The state of std::rand once n spans have been made.
RECURSIVE RandAfter(_)
RandAfter(n) == IF n = 0 THEN Seed ELSE RandNext(RandNext(RandAfter(n - 1)))

C30_RecordContents ==
    \A sid \in DOMAIN hist.spanlog :
        \A i \in RecordsOf(sid) :
            /\ sink[i].name = hist.spanlog[sid].name
            /\ sink[i].trace_id = Hex(RandNext(RandAfter(sid - 1)), 32)
            /\ sink[i].span_id = Hex(RandAfter(sid), 16)
            /\ sink[i].attributes = hist.spanlog[sid].before
            /\ (hist.spanlog[sid].ends >= 1 \/ hist.spanlog[sid].exit # "")

\* A span was given the key k twice, with v and then w, then ended; the record
\* has both entries in that order.
C30_Witness ==
    \E sid \in DOMAIN hist.spanlog :
        /\ hist.spanlog[sid].ends >= 1
        /\ hist.spanlog[sid].before = << << "k", "v" >>, << "k", "w" >> >>
        /\ \E i \in RecordsOf(sid) :
               sink[i].attributes = << << "k", "v" >>, << "k", "w" >> >>

(***************************************************************************)
(* The in-memory Node.js server (src/WSOtelJS/server.js).  Node runs one   *)
(* callback at a time: a request goes through the middleware and then the  *)
(* router before the next one is looked at.                                *)
(***************************************************************************)
MaxVisits == 3
Methods == {"GET", "POST"}
Urls == {"/", "/?x", "/about", "//"}

\* req.path: the url up to its query string.
ReqPath(url) ==
    LET pos == Find(url, "?") IN
    IF pos = 0 THEN url ELSE SubSeq(url, 1, pos - 1)

\* The attributes of visitsCounter.add(1, { 'page': 'home' }).
HomeAttrs == [k \in {"page"} |-> "home"]

\* A request arrives while none is being served.
Node_Receive(method, url) ==
    /\ res.stage \in {"", "sent"}
    /\ quota.requests > 0
    /\ quota' = [quota EXCEPT !.requests = @ - 1]
    /\ res' = [NoRes EXCEPT !.method = method, !.url = url, !.stage = "middleware"]
    /\ hist' = [hist EXCEPT !.home = IF url \in {"/", "/?x"} THEN @ + 1 ELSE @]
    /\ UNCHANGED << heap, metrics, reg_mutex, visitVars, pc, add_frame, local,
                    createVars, scrape, body, spanVars, visit_log, visitsCount,
                    visitsCounter, acidVars >>

\* The middleware counting every request, whatever its path.
Node_Middleware_AnyPath ==
    /\ res.stage = "middleware"
    /\ visitsCount' = visitsCount + 1
    /\ visitsCounter' = MapPut(visitsCounter, HomeAttrs,
                               MapGet(visitsCounter, HomeAttrs) + 1)
    /\ res' = [res EXCEPT !.stage = "route"]
    /\ UNCHANGED << heap, metrics, reg_mutex, visitVars, pc, add_frame, local,
                    createVars, scrape, body, spanVars, quota, hist, visit_log, acidVars >>

\* app.use: if (req.path === '/') { visitsCount++; visitsCounter.add(1, ...) }
\* next()
Node_Middleware ==
    /\ res.stage = "middleware"
    /\ IF ReqPath(res.url) = "/"
       THEN /\ visitsCount' = visitsCount + 1
            /\ visitsCounter' = MapPut(visitsCounter, HomeAttrs,
                                       MapGet(visitsCounter, HomeAttrs) + 1)
       ELSE UNCHANGED << visitsCount, visitsCounter >>
    /\ res' = [res EXCEPT !.stage = "route"]
    /\ UNCHANGED << heap, metrics, reg_mutex, visitVars, pc, add_frame, local,
                    createVars, scrape, body, spanVars, quota, hist, visit_log, acidVars >>

\* app.get('/'): the page with ${visitsCount}; any other request falls through
\* to the 404 of express.
Node_Route ==
    /\ res.stage = "route"
    /\ res' = IF res.method = "GET" /\ ReqPath(res.url) = "/"
              THEN [res EXCEPT !.stage = "sent", !.status = 200, !.shown = visitsCount]
              ELSE [res EXCEPT !.stage = "sent", !.status = 404]
    /\ UNCHANGED << heap, metrics, reg_mutex, visitVars, pc, add_frame, local,
                    createVars, scrape, body, spanVars, quota, hist, visit_log,
                    visitsCount, visitsCounter, acidVars >>

NodeInit ==
    /\ Fresh
    /\ heap = << >>
    /\ metrics = EmptyMap
    /\ quota = [NoQuota EXCEPT !.requests = MaxVisits]

NodeNext ==
    \/ \E method \in Methods, url \in Urls : Node_Receive(method, url)
    \/ Node_Middleware
    \/ Node_Route

NodeSpec == NodeInit /\ [][NodeNext]_vars

(***************************************************************************)
(* C21.  visits_total counts the visits of the main page.  visitsCount and *)
(* the sum added to visits_total are equal in every state, and equal the   *)
(* number of requests for '/' received once the middleware has run; the    *)
(* middleware raises both by one for a request whose path is '/' and       *)
(* changes neither for another path, nothing else changes them, and a page *)
(* that is sent shows the count with the request it answers included.      *)
(***************************************************************************)
VisitsTotal == SumValues(DOMAIN visitsCounter, visitsCounter)

CountedStep ==
    IF res.stage = "middleware" /\ res'.stage = "route" /\ ReqPath(res.url) = "/"
    THEN /\ visitsCount' = visitsCount + 1
         /\ VisitsTotal' = VisitsTotal + 1
    ELSE /\ visitsCount' = visitsCount
         /\ visitsCounter' = visitsCounter

CountsHomeVisits ==
    /\ visitsCount = VisitsTotal
    /\ DOMAIN visitsCounter \subseteq {HomeAttrs}
    /\ res.stage # "middleware" => visitsCount = hist.home
    /\ res.stage = "middleware" =>
           visitsCount = hist.home - (IF ReqPath(res.url) = "/" THEN 1 ELSE 0)
    /\ (res.stage = "sent" /\ res.status = 200) =>
           /\ res.shown = visitsCount
           /\ res.shown = hist.home
           /\ res.shown >= 1

C21_VisitsTotalCountsHome == []CountsHomeVisits /\ [][CountedStep]_vars

\* The third request for '/' has been answered with a page showing 3.
C21_Witness ==
    /\ res.stage = "sent"
    /\ res.status = 200
    /\ res.shown = 3
    /\ visitsCount = 3
    /\ VisitsTotal = 3


(***************************************************************************)
(* C31.  The Metric otel_visit_counter_total mirrors the atomic total: in  *)
(* every reachable state its accumulator for the empty label set is at     *)
(* most total_counter, and the two are equal whenever no call of           *)
(* incrementTotal is in progress.                                          *)
(***************************************************************************)
\* values[""] of the Metric the constructor registered, 0 while absent
TotalMetricValue == MapGet(heap[visit_counter].values, LabelKey(NoLabels))

C31_TotalMetricMirrorsAtomic ==
    /\ TotalMetricValue <= total_counter
    /\ (\A t \in Threads : ~InIncrementTotal(t)) => TotalMetricValue = total_counter

\* One call has returned and a second one has incremented the atomic but has
\* not yet stored into the Metric: the mirror is behind by one.
C31_Witness ==
    /\ total_counter = 2
    /\ TotalMetricValue = 1
    /\ \E t \in Threads : InIncrementTotal(t)


(***************************************************************************)
(* C32.  Every handler calls incrementTotal before incrementPath, so in    *)
(* every reachable state the sum of the values of path_counters is at most *)
(* total_counter; every /metrics response reports a visit_counter_total    *)
(* that is at least the sum of its path_visits_total lines, and every      *)
(* /stats page shows a total that is at least the sum of its path rows.    *)
(***************************************************************************)
SumOfPaths(counters) == SumValues(DOMAIN counters, counters)

\* The response of thread t has both its total and its path rows written.
Reported(t) ==
    \/ body[t].kind = "metrics"
    \/ body[t].kind = "stats" /\ pc[t] = "finish"

C32_PathsNeverAheadOfTotal ==
    /\ SumOfPaths(path_counters) <= total_counter
    /\ \A t \in Threads :
           Reported(t) => SumOfPaths(body[t].paths) <= body[t].total
    /\ \A t \in Threads :
           body[t].kind = "metrics" =>
               StartsWith(body[t].text, NativeText(body[t].total, body[t].paths))

\* A /stats page whose total is ahead of its rows while a /metrics response
\* with at least one path line is being written by the other thread.
C32_Witness ==
    \E t, u \in Threads :
        /\ body[t].kind = "stats" /\ pc[t] = "finish"
        /\ SumOfPaths(body[t].paths) >= 1
        /\ body[t].total > SumOfPaths(body[t].paths)
        /\ body[u].kind = "metrics"
        /\ SumOfPaths(body[u].paths) >= 1


(***************************************************************************)
(* C33.  Each update touches only its own target.  A step of Add(delta, L) *)
(* on Metric M changes only M's accumulator for the key of L, and no other *)
(* accumulator, Metric or counter; a step of incrementPath(p) leaves       *)
(* total_counter and the entry of every other path as they were; a step of *)
(* incrementTotal leaves path_counters and every per-path Metric as they   *)
(* were; the steps of getTotal, getPathCounters and getPrometheusMetrics,  *)
(* and every other step, change no counter at all.                         *)
(***************************************************************************)
\* The accumulators of the Metric at a, but for key k, are as they were.
ValuesKeptBut(a, k) ==
    /\ DOMAIN heap'[a].values \ {k} = DOMAIN heap[a].values \ {k}
    /\ \A j \in DOMAIN heap[a].values \ {k} : heap'[a].values[j] = heap[a].values[j]

ValuesKept(a) == heap'[a].values = heap[a].values

\* The entries of path_counters, but for path p, are as they were.
PathsKeptBut(p) ==
    /\ DOMAIN path_counters' \ {p} = DOMAIN path_counters \ {p}
    /\ \A q \in DOMAIN path_counters \ {p} : path_counters'[q] = path_counters[q]

\* No Metric is removed and none that exists changes an accumulator.
AllValuesKept ==
    /\ Len(heap') >= Len(heap)
    /\ \A a \in DOMAIN heap : ValuesKept(a)

NoCounterChanges ==
    /\ total_counter' = total_counter
    /\ path_counters' = path_counters
    /\ AllValuesKept

\* What a step of thread t may change, by the call t is in.
FrameOf(t) ==
    IF pc[t] \in AddPcs
    THEN /\ total_counter' = total_counter
         /\ path_counters' = path_counters
         /\ Len(heap') = Len(heap)
         /\ \A a \in DOMAIN heap :
                IF a = add_frame[t].m
                THEN ValuesKeptBut(a, LabelKey(add_frame[t].labels))
                ELSE ValuesKept(a)
    ELSE IF pc[t] = "incrementTotal"
    THEN /\ path_counters' = path_counters
         /\ AllValuesKept
    ELSE IF pc[t] \in {"incrementPath", "IP_count", "IP_add", "IP_unlock"} \cup CreatePcs
    THEN /\ total_counter' = total_counter
         /\ PathsKeptBut(req[t])
         /\ AllValuesKept
    ELSE NoCounterChanges

TouchesOwnTarget ==
    \/ NoCounterChanges
    \/ \E t \in Threads : pc'[t] # pc[t] /\ FrameOf(t)

C33_UpdatesTouchOwnTarget == [][TouchesOwnTarget]_vars

\* The visit of "/" is counted in full and a visit of another path is storing
\* into its own Metric: three Metrics and two path entries exist, and the store
\* is about to change one accumulator.
C33_Witness ==
    \E t \in Threads :
        /\ pc[t] = "Add_store"
        /\ add_frame[t].ret = "IP_unlock"
        /\ req[t] # "/"
        /\ "/" \in DOMAIN path_metrics
        /\ path_counters["/"] = 1
        /\ PathSeries("/") = 1
        /\ add_frame[t].m # path_metrics["/"]
        /\ TotalMetricValue = 2


(***************************************************************************)
(* C34.  A /metrics scrape counts itself before it serializes.  Every      *)
(* /metrics response reports visit_counter_total >= 1 and a line           *)
(* path_visits_total{path="/metrics"} with a value >= 1; the value is the  *)
(* number of /metrics requests received so far less those that have not    *)
(* yet counted themselves, so that with requests served one at a time the  *)
(* k-th scrape reports exactly k.                                          *)
(***************************************************************************)
\* The requests for path p received so far: those ended and those in a handler.
Received(p) ==
    Cardinality(RecordsFor(p)) + Cardinality({u \in Threads : req[u] = p})

\* The handlers of path p that have not yet executed path_counters[p]++.
NotYetCounted(p) ==
    {u \in Threads :
        /\ req[u] = p
        /\ \/ pc[u] \in {"incrementTotal", "incrementPath", "IP_count"}
           \/ pc[u] \in AddPcs /\ add_frame[u].ret = "incrementPath"}

\* std::string::find(sub) != npos
Contains(s, sub) ==
    \E i \in 1..(Len(s) - Len(sub) + 1) : SubSeq(s, i, i + Len(sub) - 1) = sub

ScrapeLine(n) == "path_visits_total{path=\"/metrics\"} " \o IntToStr(n)

C34_ScrapeCountsItself ==
    \A t \in Threads :
        body[t].kind = "metrics" =>
            /\ body[t].total >= 1
            /\ "/metrics" \in DOMAIN body[t].paths
            /\ body[t].paths["/metrics"] >= 1
            /\ body[t].paths["/metrics"] <= Received("/metrics")
            /\ Contains(body[t].text,
                        "\n" \o ScrapeLine(body[t].paths["/metrics"]) \o "\n")
            /\ pc[t] \in {"GAM", "GPF"} =>
                   body[t].paths["/metrics"]
                       = Received("/metrics") - Cardinality(NotYetCounted("/metrics"))
            /\ (pc[t] \in {"GAM", "GPF"} /\ \A u \in Threads \ {t} : pc[u] = "idle") =>
                   body[t].paths["/metrics"] = Received("/metrics")

\* The second scrape, served after the first has ended, reports 2.
C34_Witness ==
    \E t \in Threads :
        /\ body[t].kind = "metrics"
        /\ pc[t] \in {"GAM", "GPF"}
        /\ \A u \in Threads \ {t} : pc[u] = "idle"
        /\ Cardinality(RecordsFor("/metrics")) = 1
        /\ body[t].paths["/metrics"] = 2
        /\ body[t].total = 2


(***************************************************************************)
(* The PostgreSQL server (src/acid_implJS/server.js).  Node runs one       *)
(* callback at a time, and an async function gives way at every await: a   *)
(* step of the model is what one request does from one await to the next.  *)
(* The state is the one reached when startServer calls listen: the client  *)
(* of the startup check has been released, and row 'total' of counters     *)
(* exists.  Every awaited call resolves or rejects, as the database, the    *)
(* network and the pool decide.                                            *)
(***************************************************************************)
AcidMethods == {"GET", "POST"}
AcidUrls == {"/", "/health"}

\* The attributes of visitsCounter.add(1, { 'page': '/' }).
PageAttrs == [k \in {"page"} |-> "/"]

\* A request: method, url, stage, client, listener and status are the state of
\* the program (where the middleware or handler is, const client, the 'finish'
\* listener of res, res.statusCode); the other fields record what has happened
\* to the request.
NoRequest ==
    [method |-> "", url |-> "", stage |-> "", client |-> 0, listener |-> FALSE,
     status |-> 0, shown |-> 0, failed |-> "", rollback |-> "", counted |-> 0,
     obtained |-> 0, released |-> 0, routed |-> FALSE, subs |-> 0]

cppVars == << heap, metrics, reg_mutex, visitVars, pc, add_frame, local,
              createVars, scrape, body, spanVars, quota, hist, visit_log >>

\* The clients of the pool no request holds.
Idle == {c \in DOMAIN pool : pool[c] = 0}

\* The middleware is entered: activeRequests.add(1); for a path other than '/'
\* it registers the 'finish' listener and calls next() at once.
Acid_Receive(method, url) ==
    /\ Len(requests) < MaxAcidRequests
    /\ activeRequests' = activeRequests + 1
    /\ requests' = Append(requests,
           IF ReqPath(url) = "/"
           THEN [NoRequest EXCEPT !.method = method, !.url = url, !.stage = "connect"]
           ELSE [NoRequest EXCEPT !.method = method, !.url = url, !.listener = TRUE,
                                  !.routed = TRUE, !.stage = "route"])
    /\ UNCHANGED << cppVars, visitsCount, visitsCounter, res, pool, counters_row >>

\* await pool.connect(): a client is handed out once one is idle, or the
\* promise rejects and the rejection leaves the middleware
Acid_Connect(r, ok) ==
    /\ requests[r].stage = "connect"
    /\ IF ok
       THEN /\ Idle # {}
            /\ LET c == CHOOSE c \in Idle : \A d \in Idle : c <= d IN
               /\ pool' = [pool EXCEPT ![c] = r]
               /\ requests' = [requests EXCEPT ![r].client = c,
                                                ![r].obtained = @ + 1,
                                                ![r].stage = "BEGIN"]
       ELSE /\ requests' = [requests EXCEPT ![r].stage = "rejected"]
            /\ UNCHANGED pool
    /\ UNCHANGED << cppVars, visitsCount, visitsCounter, res, activeRequests,
                    counters_row >>

\* await client.query('BEGIN')
Acid_Begin(r, ok) ==
    /\ requests[r].stage = "BEGIN"
    /\ requests' = IF ok THEN [requests EXCEPT ![r].stage = "UPDATE"]
                   ELSE [requests EXCEPT ![r].failed = "BEGIN", ![r].stage = "ROLLBACK"]
    /\ UNCHANGED << cppVars, visitsCount, visitsCounter, res, activeRequests,
                    pool, counters_row >>

\* await client.query('UPDATE counters SET value = value + 1 ...')
Acid_Update(r, ok) ==
    /\ requests[r].stage = "UPDATE"
    /\ requests' = IF ok THEN [requests EXCEPT ![r].stage = "COMMIT"]
                   ELSE [requests EXCEPT ![r].failed = "UPDATE", ![r].stage = "ROLLBACK"]
    /\ UNCHANGED << cppVars, visitsCount, visitsCounter, res, activeRequests,
                    pool, counters_row >>

\* The request after finally (client.release()), res.on('finish', ...) and next().
AfterTransaction(q) ==
    [q EXCEPT !.client = 0, !.released = @ + 1, !.listener = TRUE,
              !.routed = TRUE, !.stage = "route"]

\* await client.query('COMMIT'): when it resolves, visitsCounter.add(1, ...)
\* runs, then finally, res.on and next(); when it rejects the catch block is
\* entered, the transaction being committed or not (applied)
Acid_Commit(r, ok, applied) ==
    /\ requests[r].stage = "COMMIT"
    /\ ok => applied
    /\ counters_row' = IF applied THEN counters_row + 1 ELSE counters_row
    /\ IF ok
       THEN /\ visitsCounter' = MapPut(visitsCounter, PageAttrs,
                                       MapGet(visitsCounter, PageAttrs) + 1)
            /\ pool' = [pool EXCEPT ![requests[r].client] = 0]
            /\ requests' = [requests EXCEPT
                               ![r] = AfterTransaction([@ EXCEPT !.counted = @ + 1])]
       ELSE /\ requests' = [requests EXCEPT ![r].failed = "COMMIT",
                                            ![r].stage = "ROLLBACK"]
            /\ UNCHANGED << visitsCounter, pool >>
    /\ UNCHANGED << cppVars, visitsCount, res, activeRequests >>

\* The middleware with client.release() after the try statement instead of in
\* finally: a rejected ROLLBACK leaves before the client is released.
Acid_Rollback_NoFinally(r, ok) ==
    /\ requests[r].stage = "ROLLBACK"
    /\ pool' = IF ok THEN [pool EXCEPT ![requests[r].client] = 0] ELSE pool
    /\ requests' = [requests EXCEPT ![r] =
           IF ok THEN AfterTransaction([@ EXCEPT !.rollback = "ok"])
           ELSE [@ EXCEPT !.rollback = "failed", !.stage = "rejected"]]
    /\ UNCHANGED << cppVars, visitsCount, visitsCounter, res, activeRequests,
                    counters_row >>

\* catch: await client.query('ROLLBACK').  finally releases the client either
\* way; when ROLLBACK rejects the rejection leaves the middleware after finally
Acid_Rollback(r, ok) ==
    /\ requests[r].stage = "ROLLBACK"
    /\ pool' = [pool EXCEPT ![requests[r].client] = 0]
    /\ requests' = [requests EXCEPT ![r] =
           IF ok THEN AfterTransaction([@ EXCEPT !.rollback = "ok"])
           ELSE [@ EXCEPT !.rollback = "failed", !.client = 0,
                          !.released = @ + 1, !.stage = "rejected"]]
    /\ UNCHANGED << cppVars, visitsCount, visitsCounter, res, activeRequests,
                    counters_row >>

\* The router: app.get('/') awaits pool.query(SELECT ...), which takes an idle
\* client and gives it back, and sends the page with the value read, 0 when
\* the query rejects; app.get('/health') sends OK; express answers anything
\* else with 404.
Acid_Route(r, ok) ==
    /\ requests[r].stage = "route"
    /\ LET q == requests[r] IN
       IF q.method = "GET" /\ ReqPath(q.url) = "/"
       THEN /\ ok => Idle # {}
            /\ requests' = [requests EXCEPT ![r].stage = "sent", ![r].status = 200,
                                ![r].shown = IF ok THEN counters_row ELSE 0]
       ELSE /\ ok
            /\ requests' = [requests EXCEPT ![r].stage = "sent",
                                ![r].status = IF q.method = "GET" /\ ReqPath(q.url) = "/health"
                                              THEN 200 ELSE 404]
    /\ UNCHANGED << cppVars, visitsCount, visitsCounter, res, activeRequests,
                    pool, counters_row >>

\* 'finish' is emitted once the response has been handed to the network: the
\* listener, if one was registered, runs activeRequests.add(-1)
Acid_Finish(r) ==
    /\ requests[r].stage = "sent"
    /\ IF requests[r].listener
       THEN /\ activeRequests' = activeRequests - 1
            /\ requests' = [requests EXCEPT ![r].subs = @ + 1, ![r].stage = "done"]
       ELSE /\ requests' = [requests EXCEPT ![r].stage = "done"]
            /\ UNCHANGED activeRequests
    /\ UNCHANGED << cppVars, visitsCount, visitsCounter, res, pool, counters_row >>

\* The promise of the middleware was rejected before res.on and next() were
\* reached: no handler sends a response and no listener exists.  The request
\* ends when express answers the error itself or when its connection closes.
Acid_Abandon(r) ==
    /\ requests[r].stage = "rejected"
    /\ requests' = [requests EXCEPT ![r].stage = "done"]
    /\ UNCHANGED << cppVars, visitsCount, visitsCounter, res, activeRequests,
                    pool, counters_row >>

AcidInit ==
    /\ Fresh
    /\ heap = << >>
    /\ metrics = EmptyMap
    /\ quota = NoQuota

AcidNext ==
    \/ \E method \in AcidMethods, url \in AcidUrls : Acid_Receive(method, url)
    \/ \E r \in DOMAIN requests :
           \/ \E ok \in BOOLEAN : Acid_Connect(r, ok)
           \/ \E ok \in BOOLEAN : Acid_Begin(r, ok)
           \/ \E ok \in BOOLEAN : Acid_Update(r, ok)
           \/ \E ok, applied \in BOOLEAN : Acid_Commit(r, ok, applied)
           \/ \E ok \in BOOLEAN : Acid_Rollback(r, ok)
           \/ \E ok \in BOOLEAN : Acid_Route(r, ok)
           \/ Acid_Finish(r)
           \/ Acid_Abandon(r)

AcidSpec == AcidInit /\ [][AcidNext]_vars


(***************************************************************************)
(* C35.  active_requests_total equals the number of requests in flight:    *)
(* every request adds +1 at the entry of the middleware and exactly one -1 *)
(* later, so the gauge is never negative and is 0 when no request is in    *)
(* flight, whether or not pool.connect(), the transaction or the ROLLBACK  *)
(* fails.                                                                  *)
(***************************************************************************)
\* The requests received that have not ended.
InFlight == {r \in DOMAIN requests : requests[r].stage # "done"}

\* The requests that ended without the 'finish' listener having run.
Unsubtracted == {r \in DOMAIN requests : requests[r].stage = "done" /\ requests[r].subs = 0}

C35_GaugeCountsInFlight ==
    /\ activeRequests >= 0
    /\ activeRequests = Cardinality(InFlight)
    /\ \A r \in DOMAIN requests : requests[r].stage = "done" => requests[r].subs = 1

\* What the gauge does count: the requests in flight and those that ended
\* after a rejection left the middleware.
GaugeAccounting ==
    /\ activeRequests = Cardinality(InFlight) + Cardinality(Unsubtracted)
    /\ \A r \in DOMAIN requests :
           /\ requests[r].subs \in {0, 1}
           /\ r \in Unsubtracted <=>
                  /\ requests[r].stage = "done"
                  /\ \/ requests[r].obtained = 0 /\ ReqPath(requests[r].url) = "/"
                     \/ requests[r].rollback = "failed"

(***************************************************************************)
(* C36.  visits_total is incremented for a request to '/' if and only if   *)
(* BEGIN, the UPDATE and COMMIT all succeeded for it; if one of them fails *)
(* a ROLLBACK is issued, visits_total is left unchanged, and the request   *)
(* still proceeds to the route handler.                                    *)
(***************************************************************************)
\* BEGIN, UPDATE and COMMIT have all resolved for the request.
Committed(q) ==
    q.obtained = 1 /\ q.failed = "" /\ q.stage \in {"route", "sent", "done"}

RECURSIVE CountedUpTo(_)
CountedUpTo(n) == IF n = 0 THEN 0 ELSE requests[n].counted + CountedUpTo(n - 1)

C36_CountedIffCommitted ==
    /\ MapGet(visitsCounter, PageAttrs) = CountedUpTo(Len(requests))
    /\ \A r \in DOMAIN requests :
           LET q == requests[r] IN
           /\ q.counted = (IF Committed(q) THEN 1 ELSE 0)
           /\ (q.failed # "" /\ q.stage # "ROLLBACK") =>
                  /\ q.rollback # ""
                  /\ q.counted = 0
                  /\ q.routed

(***************************************************************************)
(* C37.  Every client the middleware obtains from pool.connect() is        *)
(* released exactly once, whether COMMIT succeeded, a statement failed and *)
(* ROLLBACK succeeded, or ROLLBACK itself failed: a request holds at most  *)
(* one client, holds it only inside the transaction, and has released it   *)
(* once when it leaves the middleware; the pool lends a client to one      *)
(* request at a time and every client not held is idle.                    *)
(***************************************************************************)
C37_ClientReleasedOnce ==
    /\ \A r \in DOMAIN requests :
           LET q == requests[r] IN
           /\ q.obtained \in {0, 1}
           /\ q.released <= q.obtained
           /\ q.client # 0 <=> q.stage \in {"BEGIN", "UPDATE", "COMMIT", "ROLLBACK"}
           /\ q.client # 0 <=> q.obtained = 1 /\ q.released = 0
           /\ q.client # 0 => pool[q.client] = r
           /\ q.stage \in {"route", "sent", "done", "rejected"} => q.released = q.obtained
    /\ \A c \in DOMAIN pool :
           pool[c] # 0 => pool[c] \in DOMAIN requests /\ requests[pool[c]].client = c

\* A request whose ROLLBACK failed has given its client back, and a later
\* request has been handed a client of the pool.
C37_Witness ==
    \E r, s \in DOMAIN requests :
        /\ requests[r].rollback = "failed"
        /\ requests[r].obtained = 1
        /\ requests[r].released = 1
        /\ requests[s].client # 0
        /\ pool[requests[s].client] = s
        /\ Cardinality(Idle) = PoolMax - 1

====
